---- MODULE Spec2Model ----
(***************************************************************************)
(* Verification model of the notes application's state synchronisation     *)
(* core: the NotesContext reducer (Entity Store), the localStorage-backed  *)
(* notes adapter (Persistence Adapter) and the hash router (Route          *)
(* Synchronizer).                                                          *)
(*                                                                         *)
(* Representation                                                          *)
(*   - a JS string that is an id or an address is the sequence of its      *)
(*     characters; a null or empty id is the empty sequence NullId;        *)
(*   - a JS object is a function whose domain is the set of its own keys;  *)
(*     a key that is absent in JS is absent from the domain;               *)
(*   - an ISO timestamp string is the integer millisecond it denotes       *)
(*     (0 is never a stamp: the clock starts at 1);                        *)
(*   - a null error message is the string Null.                            *)
(***************************************************************************)
EXTENDS Integers, Sequences, FiniteSets, TLC

\* ------------------------------------------------------------------------
\* Bounds
\* ------------------------------------------------------------------------
\* largest value of the millisecond clock
MaxClock == 2

\* longest list of notes handed to INIT_LOAD
MaxLoad == 2

MaxHistory == 2

\* ------------------------------------------------------------------------
\* Value universe
\* ------------------------------------------------------------------------
Null == "null"

NullId == <<>>

A == <<"a">>

B == <<"b">>

C == <<"c">>

\* an id no note ever has
Z == <<"z">>

Ids == {A, B, C}

VARIABLES
    store,      \* the reducer state { notesById, order, selectedNoteId, loading, error, query }
    now,        \* the millisecond clock read by new Date()
    threw,      \* a reducer call has thrown
    last,       \* the last action handed to the reducer, and whether it changed the state
    hash,       \* window.location.hash
    hashEvent,  \* a hashchange event is queued
    route,      \* the state of useHashRouter: the parsed address
    routeDeps,  \* [route, params.id] as of the last run of the hash -> store effect
    selDeps,    \* selectedNoteId as of the last run of the store -> hash effect
    historyLength, \* window.history.length, counted up to MaxHistory
    db,         \* the persisted notes map, root.notes: its entries in key order
    listed,     \* the notes the last listNotes() resolved with
    reply,      \* how the promise of the last adapter call settled
    backend,    \* utils/storage: the backend in use, and whether the durable one throws
    tasks       \* the handlers suspended at an await, with the settled promise each awaits

storeVars == <<store, now, threw, last>>

routerVars == <<hash, hashEvent, route, routeDeps, selDeps, historyLength>>

adapterVars == <<db, listed, reply, backend, tasks>>

vars == <<store, now, threw, last, hash, hashEvent, route, routeDeps, selDeps, historyLength,
          db, listed, reply, backend, tasks>>

\* ------------------------------------------------------------------------
\* JS object helpers
\* ------------------------------------------------------------------------
\* the object {} (no own keys)
EmptyObject == [k \in {} |-> Null]

\* obj.key is neither undefined nor absent
Has(obj, key) == key \in DOMAIN obj

\* { ...base, ...over }
Spread(base, over) ==
    [k \in (DOMAIN base) \cup (DOMAIN over) |->
        IF k \in DOMAIN over THEN over[k] ELSE base[k]]

\* { [id]: _, ...rest } = obj
Omit(obj, key) == [k \in (DOMAIN obj) \ {key} |-> obj[k]]

\* arr.filter(pred) for pred(x) == x # id
RECURSIVE FilterNe(_, _)
FilterNe(arr, id) ==
    IF arr = <<>> THEN <<>>
    ELSE IF Head(arr) # id THEN <<Head(arr)>> \o FilterNe(Tail(arr), id)
    ELSE FilterNe(Tail(arr), id)

\* ------------------------------------------------------------------------
\* NotesContext
\* ------------------------------------------------------------------------
NotesActionTypes ==
    {"INIT_LOAD", "SELECT_NOTE", "CREATE_NOTE", "UPDATE_NOTE", "DELETE_NOTE",
     "SET_SEARCH_QUERY", "SET_LOADING", "SET_ERROR"}

initialState ==
    [notesById |-> EmptyObject,
     order |-> <<>>,
     selectedNoteId |-> NullId,
     loading |-> FALSE,
     error |-> Null,
     query |-> ""]

\* the id is pushed to the end instead of the front
insertAtEndUnique(arr, id) ==
    IF arr # <<>> /\ arr[1] = id THEN arr
    ELSE FilterNe(arr, id) \o <<id>>

insertAtBeginningUnique(arr, id) ==
    IF arr # <<>> /\ arr[1] = id THEN arr
    ELSE <<id>> \o FilterNe(arr, id)

\* nothing is removed
removeFromArray_keepsAll(arr, id) == arr

removeFromArray(arr, id) == FilterNe(arr, id)

\* a comparator key that reads createdAt first
noteTime_byCreated(n) ==
    IF Has(n, "createdAt") THEN n.createdAt
    ELSE IF Has(n, "updatedAt") THEN n.updatedAt
    ELSE 0

\* new Date(n.updatedAt || n.createdAt || 0).getTime()
noteTime(n) ==
    IF Has(n, "updatedAt") THEN n.updatedAt
    ELSE IF Has(n, "createdAt") THEN n.createdAt
    ELSE 0

\* a sort step that puts the note in front of all sorted so far
insertByRecent_inFront(sorted, n) == <<n>> \o sorted

\* [...notes].sort((a, b) => bTime - aTime): Array.prototype.sort is stable,
\* so a note goes behind every note that is not older than it
RECURSIVE insertByRecent(_, _)
insertByRecent(sorted, n) ==
    IF sorted = <<>> THEN <<n>>
    ELSE IF noteTime(Head(sorted)) >= noteTime(n)
         THEN <<Head(sorted)>> \o insertByRecent(Tail(sorted), n)
         ELSE <<n>> \o sorted

RECURSIVE sortByRecent(_)
sortByRecent(notes) ==
    IF notes = <<>> THEN <<>>
    ELSE insertByRecent(sortByRecent(SubSeq(notes, 1, Len(notes) - 1)), notes[Len(notes)])

\* for (const n of sorted) { notesById[n.id] = n; order.push(n.id); }
loadedById(sorted) ==
    [id \in {sorted[i].id : i \in 1..Len(sorted)} |->
        LET i == CHOOSE i \in 1..Len(sorted) :
                    /\ sorted[i].id = id
                    /\ \A j \in (i + 1)..Len(sorted) : sorted[j].id # id
        IN sorted[i]]

loadedOrder(sorted) == [i \in 1..Len(sorted) |-> sorted[i].id]

\* action.payload is undefined
NoPayload == [undefined |-> TRUE]

IsUndefined(payload) == Has(payload, "undefined")

\* the reducer raises a TypeError: a property of an undefined payload is
\* read, or an undefined notes list is spread
reducerThrows(action) ==
    \/ /\ action.type \in NotesActionTypes \ {"INIT_LOAD"}
       /\ IsUndefined(action.payload)
    \/ /\ action.type = "INIT_LOAD"
       /\ ~IsUndefined(action.payload)
       /\ ~Has(action.payload, "notes")

\* INIT_LOAD that always selects the first loaded note
reducer_INIT_LOAD_selectsFirst(state, payload) ==
    LET notes == IF IsUndefined(payload) THEN <<>> ELSE payload.notes
        sorted == sortByRecent(notes)
        order == loadedOrder(sorted)
    IN [state EXCEPT
            !.notesById = loadedById(sorted),
            !.order = order,
            !.loading = FALSE,
            !.error = Null,
            !.selectedNoteId = IF order # <<>> THEN order[1] ELSE NullId]

\* case NotesActionTypes.INIT_LOAD
reducer_INIT_LOAD(state, payload) ==
    LET notes == IF IsUndefined(payload) THEN <<>> ELSE payload.notes
        sorted == sortByRecent(notes)
        notesById == loadedById(sorted)
        order == loadedOrder(sorted)
    IN [state EXCEPT
            !.notesById = notesById,
            !.order = order,
            !.loading = FALSE,
            !.error = Null,
            !.selectedNoteId =
                IF state.selectedNoteId # NullId /\ Has(notesById, state.selectedNoteId)
                THEN state.selectedNoteId
                ELSE IF order # <<>> THEN order[1] ELSE NullId]

\* case NotesActionTypes.SELECT_NOTE
reducer_SELECT_NOTE(state, payload) ==
    [state EXCEPT !.selectedNoteId = IF Has(payload, "id") THEN payload.id ELSE NullId]

\* CREATE_NOTE whose defaults overwrite the fields of the given note
reducer_CREATE_NOTE_defaultsLast(state, payload, clock) ==
    IF \/ ~Has(payload, "note")
       \/ ~Has(payload.note, "id")
       \/ payload.note.id = NullId
    THEN state
    ELSE
        LET newNote == Spread(payload.note,
                              [createdAt |-> clock, updatedAt |-> clock,
                               title |-> "", content |-> ""])
        IN [state EXCEPT
                !.notesById = Spread(state.notesById, [k \in {newNote.id} |-> newNote]),
                !.order = insertAtBeginningUnique(state.order, newNote.id),
                !.selectedNoteId = newNote.id,
                !.error = Null]

\* case NotesActionTypes.CREATE_NOTE
reducer_CREATE_NOTE(state, payload, clock) ==
    IF \/ ~Has(payload, "note")
       \/ ~Has(payload.note, "id")
       \/ payload.note.id = NullId
    THEN state
    ELSE
        LET newNote == Spread([createdAt |-> clock, updatedAt |-> clock,
                               title |-> "", content |-> ""],
                              payload.note)
        IN [state EXCEPT
                !.notesById = Spread(state.notesById, [k \in {newNote.id} |-> newNote]),
                !.order = insertAtBeginningUnique(state.order, newNote.id),
                !.selectedNoteId = newNote.id,
                !.error = Null]

\* case NotesActionTypes.UPDATE_NOTE
\* UPDATE_NOTE that leaves the collection as it is
reducer_UPDATE_NOTE_deferred(state, payload, clock) == state

\* UPDATE_NOTE that inserts the note when the id is not in the collection
reducer_UPDATE_NOTE_upserts(state, payload, clock) ==
    IF ~Has(payload, "id") THEN state
    ELSE
        LET id == payload.id
            updates == IF Has(payload, "updates") THEN payload.updates ELSE EmptyObject
            existing == IF Has(state.notesById, id) THEN state.notesById[id] ELSE [id |-> id]
            updated == Spread(Spread(existing, updates), [updatedAt |-> clock])
        IN [state EXCEPT
                !.notesById = Spread(state.notesById, [k \in {id} |-> updated]),
                !.order = insertAtBeginningUnique(state.order, id),
                !.error = Null]

reducer_UPDATE_NOTE(state, payload, clock) ==
    IF ~Has(payload, "id") \/ ~Has(state.notesById, payload.id) THEN state
    ELSE
        LET id == payload.id
            updates == IF Has(payload, "updates") THEN payload.updates ELSE EmptyObject
            updated == Spread(Spread(state.notesById[id], updates), [updatedAt |-> clock])
        IN [state EXCEPT
                !.notesById = Spread(state.notesById, [k \in {id} |-> updated]),
                !.order = insertAtBeginningUnique(state.order, id),
                !.error = Null]

\* DELETE_NOTE that never adjusts the selection
reducer_DELETE_NOTE_keepsSelection(state, payload) ==
    IF ~Has(payload, "id") \/ ~Has(state.notesById, payload.id) THEN state
    ELSE [state EXCEPT
            !.notesById = Omit(state.notesById, payload.id),
            !.order = removeFromArray(state.order, payload.id),
            !.error = Null]

\* case NotesActionTypes.DELETE_NOTE
reducer_DELETE_NOTE(state, payload) ==
    IF ~Has(payload, "id") \/ ~Has(state.notesById, payload.id) THEN state
    ELSE
        LET id == payload.id
            rest == Omit(state.notesById, id)
            nextOrder == removeFromArray(state.order, id)
            nextSelected ==
                IF state.selectedNoteId = id
                THEN (IF nextOrder # <<>> THEN nextOrder[1] ELSE NullId)
                ELSE state.selectedNoteId
        IN [state EXCEPT
                !.notesById = rest,
                !.order = nextOrder,
                !.selectedNoteId = nextSelected,
                !.error = Null]

\* case NotesActionTypes.SET_SEARCH_QUERY
reducer_SET_SEARCH_QUERY(state, payload) ==
    [state EXCEPT !.query = IF Has(payload, "query") THEN payload.query ELSE ""]

\* SET_LOADING that also clears the error
reducer_SET_LOADING_clearsError(state, payload) ==
    [state EXCEPT !.loading = IF Has(payload, "loading") THEN payload.loading ELSE FALSE,
                  !.error = Null]

\* case NotesActionTypes.SET_LOADING
reducer_SET_LOADING(state, payload) ==
    [state EXCEPT !.loading = IF Has(payload, "loading") THEN payload.loading ELSE FALSE]

\* case NotesActionTypes.SET_ERROR
reducer_SET_ERROR(state, payload) ==
    [state EXCEPT !.error = IF Has(payload, "error") THEN payload.error ELSE Null]

\* the value the reducer returns when it does not throw
reducer(state, action, clock) ==
    CASE action.type = "INIT_LOAD" -> reducer_INIT_LOAD(state, action.payload)
      [] action.type = "SELECT_NOTE" -> reducer_SELECT_NOTE(state, action.payload)
      [] action.type = "CREATE_NOTE" -> reducer_CREATE_NOTE(state, action.payload, clock)
      [] action.type = "UPDATE_NOTE" -> reducer_UPDATE_NOTE(state, action.payload, clock)
      [] action.type = "DELETE_NOTE" -> reducer_DELETE_NOTE(state, action.payload)
      [] action.type = "SET_SEARCH_QUERY" -> reducer_SET_SEARCH_QUERY(state, action.payload)
      [] action.type = "SET_LOADING" -> reducer_SET_LOADING(state, action.payload)
      [] action.type = "SET_ERROR" -> reducer_SET_ERROR(state, action.payload)
      [] OTHER -> state

\* createBoundActions
actions_initLoad(notes) == [type |-> "INIT_LOAD", payload |-> [notes |-> notes]]
actions_selectNote(id) == [type |-> "SELECT_NOTE", payload |-> [id |-> id]]
actions_createNote(note) == [type |-> "CREATE_NOTE", payload |-> [note |-> note]]
actions_updateNote(id, updates) == [type |-> "UPDATE_NOTE", payload |-> [id |-> id, updates |-> updates]]
actions_deleteNote(id) == [type |-> "DELETE_NOTE", payload |-> [id |-> id]]
actions_setSearchQuery(query) == [type |-> "SET_SEARCH_QUERY", payload |-> [query |-> query]]
actions_setLoading(loading) == [type |-> "SET_LOADING", payload |-> [loading |-> loading]]
actions_setError(error) == [type |-> "SET_ERROR", payload |-> [error |-> error]]


\* dispatch(action): one atomic application of the reducer
Dispatch(action) ==
    /\ ~threw
    /\ IF reducerThrows(action)
       THEN /\ threw' = TRUE
            /\ store' = store
            /\ last' = [action |-> action, changed |-> FALSE]
       ELSE /\ threw' = FALSE
            /\ store' = reducer(store, action, now)
            /\ last' = [action |-> action,
                        changed |-> (reducer(store, action, now) # store)]
    /\ UNCHANGED now

\* the clock advances between two calls
Tick ==
    /\ now < MaxClock
    /\ now' = now + 1
    /\ UNCHANGED <<store, threw, last, routerVars, adapterVars>>

\* ------------------------------------------------------------------------
\* notesApi: the localStorage adapter
\* ------------------------------------------------------------------------
\* The persisted map root.notes is the sequence of its entries in key order
\* (Object.values visits non-numeric keys in insertion order).  The ids of
\* the model are non-numeric.

\* Object.values(map)
ObjectValues(map) == [i \in 1..Len(map) |-> map[i].note]

RECURSIVE trimStart(_)
trimStart(str) ==
    IF str # <<>> /\ Head(str) = " " THEN trimStart(Tail(str)) ELSE str

RECURSIVE trimEnd(_)
trimEnd(str) ==
    IF str # <<>> /\ str[Len(str)] = " "
    THEN trimEnd(SubSeq(str, 1, Len(str) - 1))
    ELSE str

\* String(note.id || '').trim()
trimmedId(note) == trimEnd(trimStart(IF Has(note, "id") THEN note.id ELSE NullId))

\* normalizeNote throws 'Note must have a valid id.'
normalizeThrows(note) == trimmedId(note) = NullId

\* normalizeNote: new Date(t).toISOString() gives back a valid stamp t
normalizeNote(note, clock) ==
    LET createdAt == IF Has(note, "createdAt") THEN note.createdAt ELSE clock
    IN [id |-> trimmedId(note),
        title |-> IF Has(note, "title") THEN note.title ELSE "",
        content |-> IF Has(note, "content") THEN note.content ELSE "",
        createdAt |-> createdAt,
        updatedAt |-> IF Has(note, "updatedAt") THEN note.updatedAt ELSE createdAt]

\* sortNotesByRecent: the comparator of the reducer's INIT_LOAD, word for word
sortNotesByRecent(notesArr) == sortByRecent(notesArr)

\* listNotes: Object.values(map).map(normalizeNote), then sortNotesByRecent
listNotes(map, clock) ==
    sortNotesByRecent([i \in 1..Len(map) |-> normalizeNote(map[i].note, clock)])

\* a promise that resolved with value, one that rejected with an Error of
\* the given message, and no promise yet
Resolved(value) == [settled |-> "resolved", value |-> value]

Rejected(message) == [settled |-> "rejected", message |-> message]

NoReply == [settled |-> "none"]

\* a call of the adapter, as recorded in last
AdapterCall(name) == [action |-> [type |-> name, payload |-> NoPayload], changed |-> FALSE]

\* String.prototype.trim
trim(str) == trimEnd(trimStart(str))

\* utils/storage, backend selection: the first use probes the durable backend
\* with a write and falls back to the in-memory backend when the probe fails
selectBackend(b) ==
    IF b.mode = "unprobed"
    THEN [b EXCEPT !.mode = IF b.throws THEN "memory" ELSE "durable"]
    ELSE b

\* utils/storage getAll(): the parsed root object of the backend in use; the
\* in-memory backend starts empty
getAll ==
    [notes |-> IF backend.mode = "unprobed" /\ backend.throws THEN <<>> ELSE db]

\* utils/storage setAll(obj): the notes under the root after the write
setAll(obj) == obj.notes

\* loadNotesMap: a copy of root.notes
loadNotesMap == getAll.notes

\* saveNotesMap that leaves the write out
saveNotesMap_skipsWrite(map) == getAll.notes

\* saveNotesMap(map): the persisted notes after the write
saveNotesMap(map) == setAll([notes |-> map])

\* map[key] is set
MapHas(map, key) == \E i \in 1..Len(map) : map[i].key = key

\* map[key]
MapGet(map, key) == map[CHOOSE i \in 1..Len(map) : map[i].key = key].note

\* map[key] = note: an existing key keeps its place, a new key goes last
MapSet(map, key, note) ==
    IF MapHas(map, key)
    THEN [i \in 1..Len(map) |-> IF map[i].key = key THEN [key |-> key, note |-> note] ELSE map[i]]
    ELSE Append(map, [key |-> key, note |-> note])

\* const { [key]: _omit, ...rest } = map
MapOmit(map, key) == SelectSeq(map, LAMBDA e : e.key # key)

\* the ids generateNoteId() can return; nothing keeps an id from coming twice
generateNoteId == {<<"n", "1">>, <<"n", "2">>}

\* partial.id is given and truthy
HasId(partial) == Has(partial, "id") /\ partial.id # NullId

\* buildNewNote throws: the id is blank after trimming
buildNewNoteThrows(partial, generated) ==
    trim(IF HasId(partial) THEN partial.id ELSE generated) = NullId

\* buildNewNote(partial), generated being what generateNoteId() returns
buildNewNote(partial, generated, clock) ==
    normalizeNote([id |-> trim(IF HasId(partial) THEN partial.id ELSE generated),
                   title |-> IF Has(partial, "title") THEN partial.title ELSE "",
                   content |-> IF Has(partial, "content") THEN partial.content ELSE "",
                   createdAt |-> clock,
                   updatedAt |-> clock], clock)

\* createNote that stores the new note under its first id even when taken
createNote_noRegeneration(map, partial, generated, clock) ==
    LET first == IF HasId(partial) THEN 0 ELSE 1
        newNote == buildNewNote(partial, generated[1], clock)
    IN IF buildNewNoteThrows(partial, generated[1])
       THEN [map |-> map, reply |-> Rejected("Note must have a valid id."), calls |-> first]
       ELSE [map |-> MapSet(map, newNote.id, newNote),
             reply |-> Resolved(newNote), calls |-> first]

\* createNote(partial), generated being what the successive calls of
\* generateNoteId() return; calls counts the calls made
createNote(map, partial, generated, clock) ==
    LET first == IF HasId(partial) THEN 0 ELSE 1
        newNote == buildNewNote(partial, generated[1], clock)
        regenId == generated[first + 1]
        regen == buildNewNote(Spread(partial, [id |-> regenId]), regenId, clock)
    IN IF buildNewNoteThrows(partial, generated[1])
       THEN [map |-> map, reply |-> Rejected("Note must have a valid id."), calls |-> first]
       ELSE IF MapHas(map, newNote.id)
       THEN [map |-> MapSet(map, regen.id, regen),
             reply |-> Resolved(regen), calls |-> first + 1]
       ELSE [map |-> MapSet(map, newNote.id, newNote),
             reply |-> Resolved(newNote), calls |-> first]

\* an argument that is not an object (null, a number, a string)
NotAnObject == [notAnObject |-> TRUE]

IsObject(value) == ~Has(value, "notAnObject")

\* applyUpdates(existing, updates)
applyUpdates(existing, updates, clock) ==
    normalizeNote(Spread(Spread(existing, updates), [updatedAt |-> clock]), clock)

\* updateNote that merges every key of updates
updateNote_mergesAll(map, id, updates, clock) ==
    LET safeId == trim(id)
    IN IF safeId = NullId
       THEN [map |-> map, reply |-> Rejected("updateNote requires a valid id.")]
       ELSE IF ~IsObject(updates)
       THEN [map |-> map, reply |-> Rejected("updateNote requires an updates object.")]
       ELSE IF ~MapHas(map, safeId)
       THEN [map |-> map, reply |-> Rejected("Note not found.")]
       ELSE LET updated == applyUpdates(MapGet(map, safeId), updates, clock)
            IN [map |-> MapSet(map, safeId, updated), reply |-> Resolved(updated)]

\* updateNote(id, updates)
updateNote(map, id, updates, clock) ==
    LET safeId == trim(id)
    IN IF safeId = NullId
       THEN [map |-> map, reply |-> Rejected("updateNote requires a valid id.")]
       ELSE IF ~IsObject(updates)
       THEN [map |-> map, reply |-> Rejected("updateNote requires an updates object.")]
       ELSE IF ~MapHas(map, safeId)
       THEN [map |-> map, reply |-> Rejected("Note not found.")]
       ELSE LET existing == MapGet(map, safeId)
                updated == applyUpdates(existing,
                    [title |-> IF Has(updates, "title") THEN updates.title ELSE existing.title,
                     content |-> IF Has(updates, "content") THEN updates.content
                                 ELSE existing.content], clock)
            IN [map |-> MapSet(map, safeId, updated), reply |-> Resolved(updated)]

\* deleteNote that reports true for every valid id
deleteNote_alwaysTrue(map, id) ==
    LET safeId == trim(id)
    IN IF safeId = NullId THEN [map |-> map, reply |-> Resolved(FALSE)]
       ELSE [map |-> MapOmit(map, safeId), reply |-> Resolved(TRUE)]

\* deleteNote(id)
deleteNote(map, id) ==
    LET safeId == trim(id)
    IN IF safeId = NullId THEN [map |-> map, reply |-> Resolved(FALSE)]
       ELSE IF ~MapHas(map, safeId) THEN [map |-> map, reply |-> Resolved(FALSE)]
       ELSE [map |-> MapOmit(map, safeId), reply |-> Resolved(TRUE)]

\* the null that getNote resolves with
NullNote == [null |-> TRUE]

\* getNote(id): the note, or null
getNote(map, id, clock) ==
    LET safeId == trim(id)
    IN IF safeId = NullId \/ ~MapHas(map, safeId) THEN NullNote
       ELSE normalizeNote(MapGet(map, safeId), clock)

\* listNotes() resolves
ListNotes ==
    /\ ~threw
    /\ \A i \in 1..Len(loadNotesMap) : ~normalizeThrows(loadNotesMap[i].note)
    /\ listed' = listNotes(loadNotesMap, now)
    /\ reply' = Resolved(listNotes(loadNotesMap, now))
    /\ last' = AdapterCall("listNotes")
    /\ db' = loadNotesMap
    /\ backend' = selectBackend(backend)
    /\ UNCHANGED <<store, now, threw, tasks, routerVars>>

\* createNote(partial) settles; the ids that generateNoteId() returned are
\* recorded with the call
AdapterCreate(partial) ==
    /\ ~threw
    /\ \E generated \in [1..2 -> generateNoteId] :
        LET r == createNote(loadNotesMap, partial, generated, now)
        IN /\ db' = IF r.reply.settled = "resolved" THEN saveNotesMap(r.map) ELSE loadNotesMap
           /\ reply' = r.reply
           /\ last' = [action |-> [type |-> "createNote",
                                   payload |-> [partial |-> partial,
                                                generated |-> SubSeq(generated, 1, r.calls)]],
                       changed |-> FALSE]
    /\ backend' = selectBackend(backend)
    /\ UNCHANGED <<store, now, threw, listed, tasks, routerVars>>

\* updateNote(id, updates) settles
AdapterUpdate(id, updates) ==
    /\ ~threw
    /\ LET r == updateNote(loadNotesMap, id, updates, now)
       IN /\ db' = IF r.reply.settled = "resolved" THEN saveNotesMap(r.map) ELSE loadNotesMap
          /\ reply' = r.reply
    /\ last' = [action |-> [type |-> "updateNote",
                            payload |-> [id |-> id, updates |-> updates]],
                changed |-> FALSE]
    /\ backend' = selectBackend(backend)
    /\ UNCHANGED <<store, now, threw, listed, tasks, routerVars>>

\* deleteNote(id) settles
AdapterDelete(id) ==
    /\ ~threw
    /\ LET r == deleteNote(loadNotesMap, id)
       IN /\ db' = IF r.reply.value THEN saveNotesMap(r.map) ELSE loadNotesMap
          /\ reply' = r.reply
    /\ last' = [action |-> [type |-> "deleteNote", payload |-> [id |-> id]],
                changed |-> FALSE]
    /\ backend' = selectBackend(backend)
    /\ UNCHANGED <<store, now, threw, listed, tasks, routerVars>>

\* the characters of the texts that notes carry
Chars(text) ==
    CASE text = "" -> <<>>
      [] text = "T" -> <<"T">>
      [] text = "at" -> <<"a", "t">>

\* String.prototype.toLowerCase, on the letters in use
toLowerCase(str) ==
    [i \in 1..Len(str) |->
        CASE str[i] = "T" -> "t"
          [] str[i] = "A" -> "a"
          [] OTHER -> str[i]]

\* String.prototype.includes
includes(str, part) ==
    \E i \in 0..(Len(str) - Len(part)) : SubSeq(str, i + 1, i + Len(part)) = part

\* searchNotes that compares the texts as they are written
searchNotes_caseSensitive(map, query, clock) ==
    LET q == trim(toLowerCase(query))
        arr == [i \in 1..Len(map) |-> normalizeNote(map[i].note, clock)]
    IN IF q = <<>> THEN sortNotesByRecent(arr)
       ELSE sortNotesByRecent(SelectSeq(arr, LAMBDA n :
                \/ includes(Chars(n.title), q)
                \/ includes(Chars(n.content), q)))

\* searchNotes(query)
searchNotes(map, query, clock) ==
    LET q == trim(toLowerCase(query))
        arr == [i \in 1..Len(map) |-> normalizeNote(map[i].note, clock)]
    IN IF q = <<>> THEN sortNotesByRecent(arr)
       ELSE sortNotesByRecent(SelectSeq(arr, LAMBDA n :
                \/ includes(toLowerCase(Chars(n.title)), q)
                \/ includes(toLowerCase(Chars(n.content)), q)))

\* searchNotes(query) resolves
AdapterSearch(query) ==
    /\ ~threw
    /\ \A i \in 1..Len(loadNotesMap) : ~normalizeThrows(loadNotesMap[i].note)
    /\ reply' = Resolved(searchNotes(loadNotesMap, query, now))
    /\ last' = [action |-> [type |-> "searchNotes", payload |-> [query |-> query]],
                changed |-> FALSE]
    /\ db' = loadNotesMap
    /\ backend' = selectBackend(backend)
    /\ UNCHANGED <<store, now, threw, listed, tasks, routerVars>>

\* ------------------------------------------------------------------------
\* AppRouter
\* ------------------------------------------------------------------------
StartsWith(s, prefix) ==
    /\ Len(s) >= Len(prefix)
    /\ SubSeq(s, 1, Len(prefix)) = prefix

Drop(s, n) == SubSeq(s, n + 1, Len(s))

\* characters encodeURIComponent leaves as they are
Unreserved == {"a", "b", "c", "z", "n", "o", "t", "e", "1", "2", "3"}

\* the escapes of the reserved characters of the modelled alphabet
Escapes ==
    {<<" ", <<"%", "2", "0">> >>,
     <<"/", <<"%", "2", "F">> >>,
     <<"%", <<"%", "2", "5">> >>,
     <<"#", <<"%", "2", "3">> >>,
     <<"?", <<"%", "3", "F">> >>}

URIError == <<"URIError">>

\* encodeURI, which keeps the separators of an address as they are
RECURSIVE encodeURI(_)
encodeURI(str) ==
    IF str = <<>> THEN <<>>
    ELSE IF Head(str) \in {" ", "%"}
         THEN (CHOOSE e \in Escapes : e[1] = Head(str))[2] \o encodeURI(Tail(str))
         ELSE <<Head(str)>> \o encodeURI(Tail(str))

RECURSIVE encodeURIComponent(_)
encodeURIComponent(str) ==
    IF str = <<>> THEN <<>>
    ELSE IF \E e \in Escapes : e[1] = Head(str)
         THEN (CHOOSE e \in Escapes : e[1] = Head(str))[2] \o encodeURIComponent(Tail(str))
         ELSE <<Head(str)>> \o encodeURIComponent(Tail(str))

\* a percent sign that opens no escape makes the decoding raise URIError
RECURSIVE decodeURIComponent(_)
decodeURIComponent(str) ==
    IF str = <<>> THEN <<>>
    ELSE IF Head(str) = "%"
         THEN IF \E e \in Escapes : StartsWith(str, e[2])
              THEN LET e == CHOOSE e \in Escapes : StartsWith(str, e[2])
                       tail == decodeURIComponent(Drop(str, 3))
                   IN IF tail = URIError THEN URIError ELSE <<e[1]>> \o tail
              ELSE URIError
         ELSE LET tail == decodeURIComponent(Tail(str))
              IN IF tail = URIError THEN URIError ELSE <<Head(str)>> \o tail

\* the longest prefix matched by [^/?#]+
RECURSIVE segment(_)
segment(str) ==
    IF str = <<>> \/ Head(str) \in {"/", "?", "#"} THEN <<>>
    ELSE <<Head(str)>> \o segment(Tail(str))

HomeRoute == [route |-> "/", id |-> NullId]

parseHash(hashString) ==
    LET raw == trim(hashString)
        hsh == IF StartsWith(raw, <<"#">>) THEN Tail(raw) ELSE raw
        path == IF hsh = <<>> THEN <<"/">> ELSE hsh
        normalized == IF StartsWith(path, <<"/">>) THEN path ELSE <<"/">> \o path
        notePrefix == <<"/", "n", "o", "t", "e", "/">>
        matched == IF StartsWith(normalized, notePrefix)
                   THEN segment(Drop(normalized, Len(notePrefix)))
                   ELSE <<>>
    IN IF normalized = <<"/">> THEN HomeRoute
       ELSE IF matched # <<>>
            THEN IF decodeURIComponent(matched) = URIError
                 THEN [route |-> "URIError", id |-> NullId]
                 ELSE [route |-> "/note/:id", id |-> decodeURIComponent(matched)]
            ELSE HomeRoute

buildHashForNote(id) ==
    IF id = NullId THEN <<"#", "/">>
    ELSE <<"#", "/", "n", "o", "t", "e", "/">> \o encodeURIComponent(id)

\* [route, params?.id], the dependency list of the hash -> store effect
RouteKey(r) == <<r.route, r.id>>

\* the dependency lists of a component that has not run its effects yet
Unmounted == <<"unmounted">>

\* every effect of the last render has run
EffectsFlushed ==
    /\ routeDeps = RouteKey(route)
    /\ selDeps = store.selectedNoteId

\* no effect is left to run and no hashchange event is left to deliver
Settled == EffectsFlushed /\ ~hashEvent

\* the length of the session history after a new entry, counted up to MaxHistory
Pushed(length) == IF length < MaxHistory THEN length + 1 ELSE length

\* the address bar is set from outside the application: a link or a typed
\* address adds a history entry, back and forward add none
AddressChange(h) ==
    /\ ~threw
    /\ EffectsFlushed
    /\ h # hash
    /\ hash' = h
    /\ hashEvent' = TRUE
    /\ historyLength' \in {historyLength, Pushed(historyLength)}
    /\ UNCHANGED <<storeVars, route, routeDeps, selDeps, adapterVars>>

\* useHashRouter: the hashchange / popstate handler; when parseHash raises,
\* setState is not reached and the route stays as it was
HashChangeHandler ==
    /\ ~threw
    /\ hashEvent
    /\ hashEvent' = FALSE
    /\ route' = IF parseHash(hash).route = "URIError"
                THEN route
                ELSE parseHash(hash)
    /\ UNCHANGED <<storeVars, hash, routeDeps, selDeps, historyLength, adapterVars>>

\* the first effect with the strict synchronisation of the home route
RouteToStoreEffect_strictSync(r, selectedNoteId) ==
    IF r.route = "/note/:id" /\ r.id # NullId /\ r.id # selectedNoteId
    THEN {actions_selectNote(r.id)}
    ELSE IF r.route = "/" /\ selectedNoteId # NullId
         THEN {actions_selectNote(NullId)}
         ELSE {}

\* RouterProvider, first effect: the action it dispatches for the rendered
\* route and selection, or no action
RouteToStoreEffect(r, selectedNoteId) ==
    IF r.route = "/note/:id" /\ r.id # NullId /\ r.id # selectedNoteId
    THEN {actions_selectNote(r.id)}
    ELSE {}

\* the second effect with its comparison inverted
StoreToHashEffect_inverted(selectedNoteId, currentHash) ==
    LET desiredHash == buildHashForNote(selectedNoteId)
    IN IF currentHash = desiredHash THEN desiredHash ELSE currentHash

\* window.location.hash = value, for a value other than the current one:
\* the browser navigates to the fragment and adds a history entry
AssignHash(length) == Pushed(length)

\* RouterProvider, second effect: the hash it leaves for the rendered selection
StoreToHashEffect(selectedNoteId, currentHash) ==
    LET desiredHash == buildHashForNote(selectedNoteId)
    IN IF currentHash # desiredHash THEN desiredHash ELSE currentHash

\* the effects of one commit of RouterProvider: each effect whose
\* dependencies changed since the last commit runs, in source order, on the
\* values of the render that was committed
CommitEffects ==
    /\ ~threw
    /\ ~EffectsFlushed
    /\ LET dispatched == IF routeDeps # RouteKey(route)
                         THEN RouteToStoreEffect(route, store.selectedNoteId)
                         ELSE {}
           written == IF selDeps # store.selectedNoteId
                      THEN StoreToHashEffect(store.selectedNoteId, hash)
                      ELSE hash
       IN /\ IF dispatched # {}
             THEN LET action == CHOOSE x \in dispatched : TRUE
                  IN /\ store' = reducer(store, action, now)
                     /\ last' = [action |-> action, changed |-> TRUE]
             ELSE UNCHANGED <<store, last>>
          /\ hash' = written
          /\ hashEvent' = (hashEvent \/ written # hash)
          /\ historyLength' = IF written # hash
                              THEN AssignHash(historyLength)
                              ELSE historyLength
    /\ routeDeps' = RouteKey(route)
    /\ selDeps' = store.selectedNoteId
    /\ UNCHANGED <<now, threw, route, adapterVars>>

\* ------------------------------------------------------------------------
\* App: the handlers of AppInner and Header over the api wrapper, the store
\* and the router
\* ------------------------------------------------------------------------
\* client.js toAppError(err) for err = new Error(message), as the adapter
\* throws them: message is an own property of err and is not enumerable.
\* 'message' in err holds, so the first branch returns { ...base, ...err };
\* the spread copies the enumerable own properties only
toAppError(message) ==
    LET err == [message |-> message]
        enumerable == {}
        base == [message |-> "Unexpected error"]
        spread == [k \in DOMAIN err \cap enumerable |-> err[k]]
    IN IF "message" \in DOMAIN err
       THEN Spread(base, spread).message
       ELSE IF message # "" THEN message ELSE base.message

\* the api wrapper: fn().catch((e) => Promise.reject(toAppError(e)))
apiReply(r) ==
    IF r.settled = "rejected" THEN Rejected(toAppError(r.message)) ELSE r

\* useHashRouter navigate(to): the hash it leaves
navigate(to, currentHash) ==
    LET given == IF to = <<>> THEN <<"/">> ELSE to
        target == IF StartsWith(given, <<"#">>) THEN given
                  ELSE <<"#">> \o (IF StartsWith(given, <<"/">>) THEN Tail(given) ELSE given)
    IN IF currentHash # target
       THEN IF StartsWith(Tail(target), <<"/">>) THEN target ELSE <<"#", "/">>
       ELSE currentHash

\* navigate that keeps the slash of a path
navigate_keepsSlash(to, currentHash) ==
    LET given == IF to = <<>> THEN <<"/">> ELSE to
        target == IF StartsWith(given, <<"#">>) THEN given ELSE <<"#">> \o given
    IN IF currentHash # target
       THEN IF StartsWith(Tail(target), <<"/">>) THEN target ELSE <<"#", "/">>
       ELSE currentHash

\* `/note/${id}`
NotePathOf(id) == <<"/", "n", "o", "t", "e", "/">> \o id

\* the reducer applied to the actions of one handler, in the order dispatched
RECURSIVE DispatchAll(_, _, _)
DispatchAll(state, dispatched, clock) ==
    IF dispatched = <<>> THEN state
    ELSE DispatchAll(reducer(state, Head(dispatched), clock), Tail(dispatched), clock)

\* a handler suspended at its await, with what the promise it awaits settles
\* to: the list of a load, the note of a create or a save, or the message of
\* the error
Task(kind, id, r, nextId) ==
    [kind |-> kind,
     id |-> id,
     settled |-> r.settled,
     message |-> IF r.settled = "rejected" THEN r.message ELSE "",
     notes |-> IF r.settled = "resolved" /\ kind = "load" THEN r.value ELSE <<>>,
     note |-> IF r.settled = "resolved" /\ kind \in {"create", "save"}
              THEN r.value ELSE NullNote,
     nextId |-> nextId]

RemoveAt(seq, i) == SubSeq(seq, 1, i - 1) \o SubSeq(seq, i + 1, Len(seq))

\* the router after a call of navigate(to)
Navigated(to) ==
    /\ hash' = navigate(to, hash)
    /\ hashEvent' = (hashEvent \/ navigate(to, hash) # hash)
    /\ historyLength' = IF navigate(to, hash) # hash
                        THEN AssignHash(historyLength)
                        ELSE historyLength
    /\ UNCHANGED <<route, routeDeps, selDeps>>

\* the store after the dispatches of one handler
Dispatched(dispatched) ==
    /\ store' = DispatchAll(store, dispatched, now)
    /\ last' = [action |-> dispatched[Len(dispatched)],
                changed |-> (DispatchAll(store, dispatched, now) # store)]
    /\ UNCHANGED threw

\* AppInner, initial load effect up to its await: it runs with the effects
\* of the mount, before those of RouterProvider
AppLoad ==
    /\ ~threw
    /\ routeDeps = Unmounted
    /\ last.action.type = "@@INIT"
    /\ Dispatched(<<actions_setLoading(TRUE)>>)
    /\ UNCHANGED now
    /\ LET map == loadNotesMap
           r == IF \E i \in 1..Len(map) : normalizeThrows(map[i].note)
                THEN Rejected("Note must have a valid id.")
                ELSE Resolved(listNotes(map, now))
       IN /\ reply' = r
          /\ listed' = IF r.settled = "resolved" THEN r.value ELSE listed
          /\ tasks' = Append(tasks, Task("load", NullId, apiReply(r), NullId))
    /\ db' = loadNotesMap
    /\ backend' = selectBackend(backend)
    /\ UNCHANGED routerVars

\* the component is mounted and the effects of its last render have run
AtRest == EffectsFlushed /\ ~threw

\* a command of the user comes at a later instant than the one before it
Later ==
    /\ now <= MaxClock
    /\ now' = now + 1

\* what generateNoteId returns to one create: a first id and, when that one
\* is taken, a second
AppGenerated == {<<<<"n", "1">>, <<"n", "2">>>>}

\* Header onCreateNote up to its await
onCreateNote ==
    /\ AtRest
    /\ Later
    /\ Dispatched(<<actions_setLoading(TRUE)>>)
    /\ \E generated \in AppGenerated :
        LET r == createNote(loadNotesMap, [title |-> "", content |-> ""], generated, now)
        IN /\ db' = IF r.reply.settled = "resolved" THEN saveNotesMap(r.map) ELSE loadNotesMap
           /\ reply' = r.reply
           /\ tasks' = Append(tasks, Task("create", NullId, apiReply(r.reply), NullId))
    /\ backend' = selectBackend(backend)
    /\ UNCHANGED <<listed, routerVars>>

\* AppInner handleSelectNote(id)
handleSelectNote(id) ==
    /\ AtRest
    /\ Dispatched(<<actions_selectNote(id)>>)
    /\ UNCHANGED now
    /\ Navigated(NotePathOf(id))
    /\ UNCHANGED adapterVars

\* AppInner handleSaveNote(id, updates) up to its await
handleSaveNote(id, updates) ==
    /\ AtRest
    /\ Later
    /\ Dispatched(<<actions_updateNote(id, updates), actions_setError(Null)>>)
    /\ LET r == updateNote(loadNotesMap, id, updates, now)
       IN /\ db' = IF r.reply.settled = "resolved" THEN saveNotesMap(r.map) ELSE loadNotesMap
          /\ reply' = r.reply
          /\ tasks' = Append(tasks, Task("save", id, apiReply(r.reply), NullId))
    /\ backend' = selectBackend(backend)
    /\ UNCHANGED <<listed, routerVars>>

\* (state.order || []).find((nid) => nid !== id) || null, on the order the
\* handler was rendered with
nextIdOf(order, id) ==
    IF \E i \in 1..Len(order) : order[i] # id
    THEN order[CHOOSE i \in 1..Len(order) :
                  order[i] # id /\ \A j \in 1..(i - 1) : order[j] = id]
    ELSE NullId

\* AppInner handleDeleteNote(id), confirmed, up to its await
handleDeleteNote(id) ==
    /\ AtRest
    /\ Later
    /\ Dispatched(<<actions_deleteNote(id), actions_setError(Null)>>)
    /\ LET r == deleteNote(loadNotesMap, id)
       IN /\ db' = IF r.reply.value THEN saveNotesMap(r.map) ELSE loadNotesMap
          /\ reply' = r.reply
          /\ tasks' = Append(tasks, Task("delete", id, apiReply(r.reply),
                                         nextIdOf(store.order, id)))
    /\ backend' = selectBackend(backend)
    /\ UNCHANGED <<listed, routerVars>>

\* AppInner initial load effect after its await: what it dispatches
\* (a variant whose failure path leaves loading as it is)
loadContinuation_noFinally(t) ==
    IF t.settled = "rejected"
    THEN <<actions_setError(t.message)>>
    ELSE <<actions_initLoad(t.notes), actions_setError(Null), actions_setLoading(FALSE)>>

\* AppInner initial load effect after its await: what it dispatches
loadContinuation(t) ==
    IF t.settled = "rejected"
    THEN <<actions_setError(t.message), actions_setLoading(FALSE)>>
    ELSE <<actions_initLoad(t.notes), actions_setError(Null), actions_setLoading(FALSE)>>

\* Header onCreateNote after its await: what it dispatches
createContinuation(t) ==
    IF t.settled = "rejected"
    THEN <<actions_setError(t.message), actions_setLoading(FALSE)>>
    ELSE <<actions_createNote(t.note), actions_selectNote(t.note.id),
           actions_setError(Null), actions_setLoading(FALSE)>>

\* the rest of a handler, after the promise it awaited has settled
Resume(i) ==
    /\ ~threw
    /\ routeDeps # Unmounted
    /\ i \in 1..Len(tasks)
    /\ tasks' = RemoveAt(tasks, i)
    /\ UNCHANGED now
    /\ LET t == tasks[i]
           failed == t.settled = "rejected"
       IN CASE t.kind = "load" ->
                /\ Dispatched(loadContinuation(t))
                /\ UNCHANGED routerVars
            [] t.kind = "create" ->
                /\ Dispatched(createContinuation(t))
                /\ UNCHANGED routerVars
            [] t.kind = "save" ->
                IF failed
                THEN /\ Dispatched(<<actions_setError(t.message)>>)
                     /\ UNCHANGED routerVars
                ELSE /\ Navigated(NotePathOf(t.id))
                     /\ UNCHANGED storeVars
            [] t.kind = "delete" ->
                IF failed
                THEN /\ Dispatched(<<actions_setError(t.message)>>)
                     /\ UNCHANGED routerVars
                ELSE /\ Navigated(IF t.nextId # NullId
                                  THEN NotePathOf(t.nextId)
                                  ELSE <<"/">>)
                     /\ UNCHANGED storeVars
    /\ UNCHANGED <<db, listed, reply, backend>>

\* the effects of RouterProvider; those of the mount run after the load effect
AppCommitEffects ==
    /\ (routeDeps = Unmounted => last.action.type # "@@INIT")
    /\ CommitEffects

\* ------------------------------------------------------------------------
\* Inputs
\* ------------------------------------------------------------------------
StoreIds == {A, B}

Titles == {"", "T"}

\* stamps that can have been taken by now
TimesUpTo(clock) == 1..clock

\* full notes, as the adapter returns them
FullNotes(ids, clock) ==
    {n \in [id : ids, title : {""}, content : {""},
            createdAt : TimesUpTo(clock), updatedAt : TimesUpTo(clock)] :
        n.createdAt <= n.updatedAt}

\* full notes that were created just now
FreshNotes(ids, clock) ==
    [id : ids, title : {""}, content : {""}, createdAt : {clock}, updatedAt : {clock}]

\* lists of fresh notes, an id possibly more than once
LoadLists(ids, clock) ==
    UNION {[1..n -> FreshNotes(ids, clock)] : n \in 0..MaxLoad}

\* notes handed to CREATE_NOTE: the id alone, or with a title, or with stamps
CreateNotes(ids, clock) ==
    [id : ids] \cup [id : ids, title : {"T"}]
        \cup {[id |-> id, createdAt |-> t, updatedAt |-> t] : id \in ids, t \in TimesUpTo(clock)}

\* partial fields handed to UPDATE_NOTE
UpdateFields(clock) ==
    {EmptyObject} \cup [title : Titles] \cup [createdAt : TimesUpTo(clock)]

\* ------------------------------------------------------------------------
\* Spec: the Entity Store alone, driven through its bound actions
\* ------------------------------------------------------------------------
InitStore ==
    /\ store = initialState
    /\ now = 1
    /\ threw = FALSE
    /\ last = [action |-> [type |-> "@@INIT", payload |-> NoPayload], changed |-> FALSE]

InitRouterIdle ==
    /\ hash = <<>>
    /\ hashEvent = FALSE
    /\ historyLength = 1
    /\ route = HomeRoute
    /\ routeDeps = RouteKey(HomeRoute)
    /\ selDeps = NullId

InitAdapterEmpty ==
    /\ db = <<>>
    /\ listed = <<>>
    /\ reply = NoReply
    /\ backend = [mode |-> "unprobed", throws |-> FALSE]
    /\ tasks = <<>>

Init == InitStore /\ InitRouterIdle /\ InitAdapterEmpty

Load ==
    /\ \E notes \in LoadLists(StoreIds, now) : Dispatch(actions_initLoad(notes))
    /\ UNCHANGED <<routerVars, adapterVars>>

Select ==
    /\ \E id \in StoreIds \cup {NullId} : Dispatch(actions_selectNote(id))
    /\ UNCHANGED <<routerVars, adapterVars>>

Create ==
    /\ \/ \E note \in CreateNotes(StoreIds, now) \cup {[title |-> "T"]} :
            Dispatch(actions_createNote(note))
       \/ Dispatch([type |-> "CREATE_NOTE", payload |-> EmptyObject])
    /\ UNCHANGED <<routerVars, adapterVars>>

Update ==
    /\ \E id \in StoreIds, updates \in UpdateFields(now) : Dispatch(actions_updateNote(id, updates))
    /\ UNCHANGED <<routerVars, adapterVars>>

Delete ==
    /\ \E id \in StoreIds : Dispatch(actions_deleteNote(id))
    /\ UNCHANGED <<routerVars, adapterVars>>

SetError ==
    /\ \E e \in {Null, "E"} : Dispatch(actions_setError(e))
    /\ UNCHANGED <<routerVars, adapterVars>>

Next ==
    \/ Load
    \/ Select
    \/ Create
    \/ Update
    \/ Delete
    \/ SetError
    \/ Tick

Spec == Init /\ [][Next]_vars

\* ------------------------------------------------------------------------
\* SpecOrder: three notes created, touched, deleted and reloaded
\* ------------------------------------------------------------------------
OrderLoad ==
    /\ \E notes \in LoadLists(Ids, now) : Dispatch(actions_initLoad(notes))
    /\ UNCHANGED <<routerVars, adapterVars>>

OrderCreate ==
    /\ \E id \in Ids : Dispatch(actions_createNote([id |-> id]))
    /\ UNCHANGED <<routerVars, adapterVars>>

OrderUpdate ==
    /\ \E id \in Ids, title \in Titles : Dispatch(actions_updateNote(id, [title |-> title]))
    /\ UNCHANGED <<routerVars, adapterVars>>

OrderDelete ==
    /\ \E id \in Ids : Dispatch(actions_deleteNote(id))
    /\ UNCHANGED <<routerVars, adapterVars>>

NextOrder ==
    \/ OrderLoad
    \/ OrderCreate
    \/ OrderUpdate
    \/ OrderDelete

SpecOrder == Init /\ [][NextOrder]_vars

\* ------------------------------------------------------------------------
\* SpecSync: the store under RouterProvider, with every kind of action
\* ------------------------------------------------------------------------
Hash(id) == buildHashForNote(id)

\* addresses the session can start at or be sent to
Addresses == {<<>>, <<"#", "/">>, Hash(A), Hash(Z)}

\* the page is opened at some address, in a tab whose history has length
\* entries
InitMounting(length) ==
    /\ InitStore
    /\ InitAdapterEmpty
    /\ hash \in Addresses
    /\ hashEvent = FALSE
    /\ historyLength = length
    /\ route = parseHash(hash)
    /\ routeDeps = Unmounted
    /\ selDeps = Unmounted

InitSync == InitMounting(1)

\* the page is opened in a tab with a long history, whose length is counted
\* no further
InitLive == InitMounting(MaxHistory)

\* a dispatch from a component: the effects of the last render have run
UiDispatch(action) ==
    /\ EffectsFlushed
    /\ Dispatch(action)
    /\ UNCHANGED <<routerVars, adapterVars>>

SyncLoad == \E notes \in LoadLists(StoreIds, now) : UiDispatch(actions_initLoad(notes))

SyncSelect == \E id \in StoreIds : UiDispatch(actions_selectNote(id))

SyncCreate == \E id \in StoreIds : UiDispatch(actions_createNote([id |-> id]))

SyncUpdate == \E id \in StoreIds : UiDispatch(actions_updateNote(id, EmptyObject))

SyncDelete == \E id \in StoreIds : UiDispatch(actions_deleteNote(id))

SyncSetError == \E e \in {Null, "E"} : UiDispatch(actions_setError(e))

\* dispatch({ type }) and dispatch({ type, payload: {} }), of a known or an unknown type
RawTypes == {"INIT_LOAD", "SELECT_NOTE", "UNKNOWN"}

DispatchRaw ==
    \E type \in RawTypes, payload \in {NoPayload, EmptyObject} :
        UiDispatch([type |-> type, payload |-> payload])

SyncAddressChange == \E h \in Addresses : AddressChange(h)

NextSync ==
    \/ SyncLoad
    \/ SyncSelect
    \/ SyncCreate
    \/ SyncUpdate
    \/ SyncDelete
    \/ SyncSetError
    \/ DispatchRaw
    \/ SyncAddressChange
    \/ HashChangeHandler
    \/ CommitEffects

SpecSync == InitSync /\ [][NextSync]_vars

\* ------------------------------------------------------------------------
\* SpecSort: a session that starts on notes persisted by earlier sessions,
\* lists them and loads lists of them into the store
\* ------------------------------------------------------------------------
\* the persisted maps: up to MaxLoad full notes under their ids, in any key
\* order, stamped by earlier sessions
PersistedMaps ==
    UNION {{[i \in 1..n |-> [key |-> notes[i].id, note |-> notes[i]]] :
                notes \in {ns \in [1..n -> FullNotes(Ids, MaxClock)] :
                            \A i, j \in 1..n : i # j => ns[i].id # ns[j].id}} :
           n \in 0..MaxLoad}

InitSort ==
    /\ store = initialState
    /\ now = MaxClock
    /\ threw = FALSE
    /\ last = [action |-> [type |-> "@@INIT", payload |-> NoPayload], changed |-> FALSE]
    /\ InitRouterIdle
    /\ db \in PersistedMaps
    /\ listed = <<>>
    /\ reply = NoReply
    /\ backend = [mode |-> "unprobed", throws |-> FALSE]
    /\ tasks = <<>>

\* App: actions.initLoad(notes) with the list that listNotes() resolved with
SortLoadListed ==
    /\ last.action.type = "listNotes"
    /\ Dispatch(actions_initLoad(listed))
    /\ UNCHANGED <<routerVars, adapterVars>>

\* initLoad with the persisted notes in any order
SortLoadAny ==
    /\ \E p \in Permutations(1..Len(db)) :
            Dispatch(actions_initLoad([i \in 1..Len(db) |-> db[p[i]].note]))
    /\ UNCHANGED <<routerVars, adapterVars>>

SortSelect ==
    /\ \E id \in Ids : Dispatch(actions_selectNote(id))
    /\ UNCHANGED <<routerVars, adapterVars>>

NextSort ==
    \/ ListNotes
    \/ SortLoadListed
    \/ SortLoadAny
    \/ SortSelect

SpecSort == InitSort /\ [][NextSort]_vars

\* ------------------------------------------------------------------------
\* SpecAdapter: the localStorage adapter alone, from an empty storage
\* ------------------------------------------------------------------------
\* the ids that generateNoteId() can return
N1 == <<"n", "1">>

N2 == <<"n", "2">>

\* an id of blanks, and the id n1 with a blank in front
Blank == <<" ">>

PadN1 == <<" ", "n", "1">>

\* the partials given to createNote: without an id, with an id (one that the
\* generator can return as well), with a padded and with a blank id
CreatePartials ==
    {EmptyObject, [title |-> "T"], [id |-> N1], [id |-> PadN1], [id |-> Blank]}

AdapterIds == {N1, N2}

AdapterUpdates ==
    {EmptyObject, NotAnObject, [title |-> "T"], [content |-> "T"],
     [title |-> "", id |-> N2, createdAt |-> MaxClock, updatedAt |-> 1]}

AdapterCreateAny == \E partial \in CreatePartials : AdapterCreate(partial)

AdapterUpdateAny == \E id \in AdapterIds, updates \in AdapterUpdates : AdapterUpdate(id, updates)

AdapterDeleteAny == \E id \in AdapterIds : AdapterDelete(id)

NextAdapter ==
    \/ AdapterCreateAny
    \/ AdapterUpdateAny
    \/ AdapterDeleteAny
    \/ Tick

SpecAdapter == Init /\ [][NextAdapter]_vars

\* ------------------------------------------------------------------------
\* SpecStamps: the store and the adapter side by side under one clock
\* ------------------------------------------------------------------------
\* the notes given to the store's createNote: every stamp given or left out
StampNotes(clock) ==
    {[id |-> A]}
        \cup [id : {A}, createdAt : TimesUpTo(clock)]
        \cup [id : {A}, updatedAt : TimesUpTo(clock)]
        \cup {n \in [id : {A}, createdAt : TimesUpTo(clock), updatedAt : TimesUpTo(clock)] :
                n.createdAt <= n.updatedAt}

StampCreate ==
    /\ \E note \in StampNotes(now) : Dispatch(actions_createNote(note))
    /\ UNCHANGED <<routerVars, adapterVars>>

StampUpdate ==
    /\ \E updates \in {EmptyObject} \cup [createdAt : TimesUpTo(now)] :
            Dispatch(actions_updateNote(A, updates))
    /\ UNCHANGED <<routerVars, adapterVars>>

\* initLoad with the persisted notes as listNotes() gives them
StampLoad ==
    /\ \A i \in 1..Len(db) : ~normalizeThrows(db[i].note)
    /\ Dispatch(actions_initLoad(listNotes(db, now)))
    /\ UNCHANGED <<routerVars, adapterVars>>

StampAdapterCreate == AdapterCreate(EmptyObject)

StampAdapterUpdate == \E id \in AdapterIds : AdapterUpdate(id, EmptyObject)

NextStamps ==
    \/ StampCreate
    \/ StampUpdate
    \/ StampLoad
    \/ StampAdapterCreate
    \/ StampAdapterUpdate
    \/ Tick

SpecStamps == Init /\ [][NextStamps]_vars

\* ------------------------------------------------------------------------
\* SpecSearch: listing and searching the notes persisted by earlier sessions
\* ------------------------------------------------------------------------
\* persisted notes with texts to search in
SearchNotes ==
    {n \in [id : Ids, title : {"", "T"}, content : {"", "at"},
            createdAt : TimesUpTo(MaxClock), updatedAt : TimesUpTo(MaxClock)] :
        n.createdAt = n.updatedAt}

SearchMaps ==
    UNION {{[i \in 1..n |-> [key |-> notes[i].id, note |-> notes[i]]] :
                notes \in {ns \in [1..n -> SearchNotes] :
                            \A i, j \in 1..n : i # j => ns[i].id # ns[j].id}} :
           n \in 0..MaxLoad}

\* what is typed into a search: nothing, blanks, letters in either case, a
\* letter and a blank, a text that no note has
Queries ==
    {<<>>, <<" ">>, <<"t">>, <<"T">>, <<"A", "t">>, <<"t", " ">>, <<"z">>}

InitSearch ==
    /\ InitStore
    /\ InitRouterIdle
    /\ db \in SearchMaps
    /\ listed = <<>>
    /\ reply = NoReply
    /\ backend = [mode |-> "unprobed", throws |-> FALSE]
    /\ tasks = <<>>

SearchAny == \E query \in Queries : AdapterSearch(query)

NextSearch ==
    \/ ListNotes
    \/ SearchAny

SpecSearch == InitSearch /\ [][NextSearch]_vars

\* ------------------------------------------------------------------------
\* SpecRoute: RouterProvider with ids that need escaping in an address
\* ------------------------------------------------------------------------
MaxIdLen == 2

IdChars == {"a", " ", "/", "%", "#"}

ExampleId == <<"a", "b", "c", " ", "1", "2", "3">>

ExampleAddress ==
    <<"#", "/", "n", "o", "t", "e", "/", "a", "b", "c", "%", "2", "0", "1", "2", "3">>

RouteIds == UNION {[1..k -> IdChars] : k \in 1..MaxIdLen} \cup {ExampleId}

RouteAddresses ==
    {<<"#", "/">>, ExampleAddress, Hash(<<"a">>), Hash(<<"a", "/">>),
     <<"#", "/", "n", "o", "t", "e", "/", "a", "/", "a">>}

InitRoute ==
    /\ InitStore
    /\ InitAdapterEmpty
    /\ hash \in RouteAddresses
    /\ hashEvent = FALSE
    /\ historyLength = 1
    /\ route = parseHash(hash)
    /\ routeDeps = Unmounted
    /\ selDeps = Unmounted

RouteSelect ==
    \E id \in RouteIds \cup {NullId} :
        Settled /\ UiDispatch(actions_selectNote(id))

RouteAddressChange == \E h \in RouteAddresses : Settled /\ AddressChange(h)

NextRoute ==
    \/ RouteSelect
    \/ RouteAddressChange
    \/ HashChangeHandler
    \/ CommitEffects

SpecRoute == InitRoute /\ [][NextRoute]_vars

\* ------------------------------------------------------------------------
\* SpecParse: useHashRouter with addresses of every form
\* ------------------------------------------------------------------------
MaxSegLen == 2

SegChars == {"a", "%", "/"}

NotePath == <<"#", "/", "n", "o", "t", "e", "/">>

\* #/note/ followed by any characters, and addresses of other forms
ParseAddresses ==
    {NotePath \o tail : tail \in UNION {[1..k -> SegChars] : k \in 1..MaxSegLen}}
        \cup {<<>>, <<"#">>, <<"#", "/">>, NotePath, <<"#", "/", "n", "o", "t", "e">>,
              <<"#", "/", "a">>, <<"#", "n", "o", "t", "e", "/", "a">>,
              NotePath \o <<"%", "2", "0">>, NotePath \o <<"a", "?", "a">>,
              NotePath \o <<"a", " ">>}

InitParse ==
    /\ InitStore
    /\ InitAdapterEmpty
    /\ hash \in {<<"#", "/">>, Hash(A)}
    /\ hashEvent = FALSE
    /\ historyLength = 1
    /\ route = parseHash(hash)
    /\ routeDeps = Unmounted
    /\ selDeps = Unmounted

ParseAddressChange == \E h \in ParseAddresses : Settled /\ AddressChange(h)

NextParse ==
    \/ ParseAddressChange
    \/ HashChangeHandler
    \/ CommitEffects

SpecParse == InitParse /\ [][NextParse]_vars

\* ------------------------------------------------------------------------
\* SpecLive: RouterProvider under the store, inputs arriving at any time,
\* with the scheduling of effects and hashchange events made fair
\* ------------------------------------------------------------------------
\* loaded lists without a repeated id
LiveLists ==
    {notes \in LoadLists(StoreIds, now) :
        /\ Len(notes) <= 2
        /\ \A i, j \in 1..Len(notes) : notes[i].id = notes[j].id => i = j}

LiveLoad == \E notes \in LiveLists : UiDispatch(actions_initLoad(notes))

NextLive ==
    \/ LiveLoad
    \/ SyncSelect
    \/ SyncCreate
    \/ SyncDelete
    \/ SyncAddressChange
    \/ HashChangeHandler
    \/ CommitEffects

\* React runs the effects of every commit and the browser delivers every
\* queued hashchange event; the render a dispatch has scheduled is not
\* overtaken by hashchange events for ever
SpecLive ==
    /\ InitLive
    /\ [][NextLive]_vars
    /\ WF_vars(CommitEffects)
    /\ WF_vars(HashChangeHandler)
    /\ SF_vars(hashEvent /\ CommitEffects)

\* ------------------------------------------------------------------------
\* SpecCalm: one input at a time, the next one when the synchronisation of
\* the previous one has come to rest
\* ------------------------------------------------------------------------
CalmLoad == Settled /\ LiveLoad

CalmSelect == Settled /\ SyncSelect

CalmCreate == Settled /\ SyncCreate

CalmDelete == Settled /\ SyncDelete

CalmAddressChange == Settled /\ SyncAddressChange

NextCalm ==
    \/ CalmLoad
    \/ CalmSelect
    \/ CalmCreate
    \/ CalmDelete
    \/ CalmAddressChange
    \/ HashChangeHandler
    \/ CommitEffects

SpecCalm ==
    /\ InitLive
    /\ [][NextCalm]_vars
    /\ WF_vars(CommitEffects)
    /\ WF_vars(HashChangeHandler)

\* ------------------------------------------------------------------------
\* Properties of the Entity Store
\* ------------------------------------------------------------------------
Range(seq) == {seq[i] : i \in 1..Len(seq)}

Keys(state) == DOMAIN state.notesById

\* how often id occurs in a sequence of ids
Count(seq, id) == Cardinality({i \in 1..Len(seq) : seq[i] = id})

\* this step applied the reducer to an action of the given type
IsStep(type) ==
    /\ last' # last \/ store' # store
    /\ last'.action.type = type

\* field of a note, or a default when the note has no such key
FieldOr(n, f, default) == IF Has(n, f) THEN n[f] ELSE default

\* C1: in every reachable state of the store, order holds exactly the keys
\* of notesById and holds no id twice.
C1_OrderMatchesKeys ==
    /\ Range(store.order) = Keys(store)
    /\ \A i, j \in 1..Len(store.order) : i # j => store.order[i] # store.order[j]

\* C5: INIT_LOAD replaces notesById and order by the given notes, keeps the
\* selection when its id is among them and otherwise selects the first id of
\* the new order (null for an empty list), and sets error to null.
C5_LoadReplaces ==
    [][IsStep("INIT_LOAD") =>
        LET notes == last'.action.payload.notes
            inputIds == {notes[i].id : i \in 1..Len(notes)}
        IN /\ Keys(store') = inputIds
           /\ \A id \in inputIds :
                \E i \in 1..Len(notes) : notes[i].id = id /\ store'.notesById[id] = notes[i]
           /\ Len(store'.order) = Len(notes)
           /\ \A id \in inputIds :
                Count(store'.order, id) = Cardinality({i \in 1..Len(notes) : notes[i].id = id})
           /\ store'.selectedNoteId =
                IF store.selectedNoteId # NullId /\ store.selectedNoteId \in inputIds
                THEN store.selectedNoteId
                ELSE IF notes = <<>> THEN NullId ELSE store'.order[1]
           /\ store'.error = Null
           /\ notes = <<>> => store'.order = <<>> /\ store'.selectedNoteId = NullId
    ]_vars

\* C5 witness: a list of two different notes was loaded and the selection
\* stayed on the note that is second in the new order.
C5_Witness ==
    /\ last.action.type = "INIT_LOAD"
    /\ Len(store.order) = 2
    /\ store.order[1] # store.order[2]
    /\ store.selectedNoteId = store.order[2]

\* C7: DELETE_NOTE of a present id removes it from notesById and from order
\* and leaves the other notes alone; a deleted selection moves to the first
\* remaining id of order, or to null; another selection stays; DELETE_NOTE
\* of an absent id returns the state unchanged.
C7_Delete ==
    [][IsStep("DELETE_NOTE") =>
        LET id == last'.action.payload.id
        IN IF id \in Keys(store)
           THEN /\ Keys(store') = Keys(store) \ {id}
                /\ \A k \in Keys(store') : store'.notesById[k] = store.notesById[k]
                /\ Range(store'.order) = Range(store.order) \ {id}
                /\ store'.selectedNoteId =
                      IF store.selectedNoteId = id
                      THEN (IF store'.order = <<>> THEN NullId ELSE store'.order[1])
                      ELSE store.selectedNoteId
           ELSE store' = store
    ]_vars

\* C7 witness: a delete took the selected note away and another note, now
\* first in order, is selected.
C7_Witness ==
    /\ last.action.type = "DELETE_NOTE"
    /\ last.changed
    /\ Len(store.order) = 1
    /\ store.selectedNoteId = store.order[1]
    /\ store.selectedNoteId # last.action.payload.id

\* C8: UPDATE_NOTE of a present id merges the fields, moves the id to the
\* front of order, sets error to null, keeps selectedNoteId and createdAt
\* and makes updatedAt strictly greater; of an absent id it changes nothing.
C8_Update ==
    [][IsStep("UPDATE_NOTE") =>
        LET id == last'.action.payload.id
            updates == last'.action.payload.updates
        IN IF id \in Keys(store)
           THEN /\ \A f \in DOMAIN updates \ {"updatedAt"} :
                      store'.notesById[id][f] = updates[f]
                /\ store'.order[1] = id
                /\ store'.error = Null
                /\ store'.selectedNoteId = store.selectedNoteId
                /\ store'.notesById[id].createdAt = store.notesById[id].createdAt
                /\ store'.notesById[id].updatedAt > store.notesById[id].updatedAt
           ELSE store' = store
    ]_vars

\* C9: CREATE_NOTE of a note with an id stores the note under that id with
\* empty title and content and the current time as stamps wherever the note
\* gives none, selects it and sets error to null; without a note or without
\* an id the state is returned unchanged.
C9_Create ==
    [][IsStep("CREATE_NOTE") =>
        LET payload == last'.action.payload
        IN IF Has(payload, "note") /\ Has(payload.note, "id")
           THEN LET note == payload.note
                    stored == store'.notesById[note.id]
                IN /\ Keys(store') = Keys(store) \cup {note.id}
                   /\ \A k \in Keys(store) \ {note.id} :
                        store'.notesById[k] = store.notesById[k]
                   /\ DOMAIN stored = {"id", "title", "content", "createdAt", "updatedAt"}
                   /\ stored.id = note.id
                   /\ stored.title = FieldOr(note, "title", "")
                   /\ stored.content = FieldOr(note, "content", "")
                   /\ stored.createdAt = FieldOr(note, "createdAt", now)
                   /\ stored.updatedAt = FieldOr(note, "updatedAt", now)
                   /\ store'.selectedNoteId = note.id
                   /\ store'.error = Null
           ELSE store' = store
    ]_vars

\* C9 witness: a note given with stamps but no title overwrote a note of
\* the same id: it holds the given stamps, which are not the current time,
\* and the default title.
C9_Witness ==
    /\ last.action.type = "CREATE_NOTE"
    /\ Has(last.action.payload, "note")
    /\ Has(last.action.payload.note, "createdAt")
    /\ ~Has(last.action.payload.note, "title")
    /\ last.action.payload.note.createdAt < now
    /\ store.selectedNoteId = last.action.payload.note.id
    /\ store.notesById[store.selectedNoteId].createdAt = last.action.payload.note.createdAt
    /\ store.notesById[store.selectedNoteId].title = ""
    /\ Len(store.order) = 2

\* C10: a note that is in notesById before and after a step has the same id
\* and the same createdAt after it as before it.
C10_IdAndCreatedAtFixed ==
    [][\A k \in Keys(store) \cap Keys(store') :
            /\ store'.notesById[k].id = store.notesById[k].id
            /\ store'.notesById[k].createdAt = store.notesById[k].createdAt
    ]_vars

\* C2 as stated: a selection that is not null is a key of notesById.
C2_SelectedExists ==
    store.selectedNoteId # NullId => store.selectedNoteId \in Keys(store)

\* C2 as amended: a step of any kind but SELECT_NOTE that starts with a
\* selection that is null or a key of notesById ends with one; SELECT_NOTE,
\* from a component or from the router's effect, stores the id it is given.
C2_SelectionKeptByOthers ==
    [][/\ (/\ last' # last \/ store' # store
           /\ last'.action.type # "SELECT_NOTE"
           /\ C2_SelectedExists) => C2_SelectedExists'
       /\ (IsStep("SELECT_NOTE") /\ ~threw') =>
              store'.selectedNoteId = FieldOr(last'.action.payload, "id", NullId)
    ]_vars

\* C2 witness: the router's effect selected the id of the address, for which
\* there is no note, while a note exists.
C2_Witness ==
    /\ last.action = actions_selectNote(Z)
    /\ route.id = Z
    /\ store.selectedNoteId = Z
    /\ Keys(store) # {}

\* C3: no reducer call throws, and an action of unknown type leaves the
\* state as it is.
C3_ReducerTotal ==
    /\ ~threw
    /\ last.action.type \notin NotesActionTypes => ~last.changed

\* the order without one id
Without(seq, id) == SelectSeq(seq, LAMBDA x : x # id)

\* C4: after CREATE_NOTE of a note with an id, and after UPDATE_NOTE of a
\* present id, the id is first in order and the other ids follow in the
\* order they had before.
C4_TouchMovesToFront ==
    [][\A id \in Ids :
          (\/ IsStep("CREATE_NOTE") /\ FieldOr(FieldOr(last'.action.payload, "note", EmptyObject),
                                                "id", NullId) = id
           \/ IsStep("UPDATE_NOTE") /\ last'.action.payload.id = id /\ id \in Keys(store))
          => /\ store'.order[1] = id
             /\ Without(store'.order, id) = Without(store.order, id)
    ]_vars

\* C4 witness: an update changed a store of three notes and its id is first.
C4_Witness ==
    /\ last.action.type = "UPDATE_NOTE"
    /\ last.changed
    /\ Len(store.order) = 3
    /\ Cardinality(Range(store.order)) = 3
    /\ store.order[1] = last.action.payload.id

\* ------------------------------------------------------------------------
\* Properties of the sort order
\* ------------------------------------------------------------------------
\* where id stands in a sequence of ids
Pos(ids, id) == CHOOSE i \in 1..Len(ids) : ids[i] = id

IdsOf(notes) == [i \in 1..Len(notes) |-> notes[i].id]

\* outIds lists the notes of input (of different ids) newest updatedAt
\* first; on equal updatedAt the newer createdAt first
RecentFirstCreatedOnTies(input, outIds) ==
    /\ Len(outIds) = Len(input)
    /\ Range(outIds) = Range(IdsOf(input))
    /\ \A i, j \in 1..Len(input) :
        LET pi == Pos(outIds, input[i].id)
            pj == Pos(outIds, input[j].id)
        IN /\ input[i].updatedAt > input[j].updatedAt => pi < pj
           /\ (input[i].updatedAt = input[j].updatedAt
                    /\ input[i].createdAt > input[j].createdAt) => pi < pj

\* outIds lists the notes of input (of different ids) newest updatedAt
\* first; on equal updatedAt in the order of input
RecentFirstInputOrderOnTies(input, outIds) ==
    /\ Len(outIds) = Len(input)
    /\ Range(outIds) = Range(IdsOf(input))
    /\ \A i, j \in 1..Len(input) :
        LET pi == Pos(outIds, input[i].id)
            pj == Pos(outIds, input[j].id)
        IN /\ input[i].updatedAt > input[j].updatedAt => pi < pj
           /\ (input[i].updatedAt = input[j].updatedAt /\ i < j) => pi < pj

\* C6 as stated: after INIT_LOAD the order of the store, and the list that
\* listNotes() resolves with, have the newest updatedAt first and, on equal
\* updatedAt, the newest createdAt first.
C6_TiesByCreatedAt ==
    [][/\ IsStep("INIT_LOAD") =>
            RecentFirstCreatedOnTies(last'.action.payload.notes, store'.order)
       /\ IsStep("listNotes") =>
            RecentFirstCreatedOnTies(ObjectValues(db), IdsOf(listed'))
    ]_vars

\* C6 amended: after INIT_LOAD the order of the store, and the list that
\* listNotes() resolves with, have the newest updatedAt first; notes of equal
\* updatedAt keep the order of the input (for listNotes, the key order of the
\* persisted map), whatever their createdAt.  listNotes() resolves with the
\* persisted notes themselves.
C6_TiesByInputOrder ==
    [][/\ IsStep("INIT_LOAD") =>
            RecentFirstInputOrderOnTies(last'.action.payload.notes, store'.order)
       /\ IsStep("listNotes") =>
            /\ RecentFirstInputOrderOnTies(ObjectValues(db), IdsOf(listed'))
            /\ Range(listed') = Range(ObjectValues(db))
    ]_vars

\* C6 witness: listNotes() resolved with two notes of equal updatedAt, the
\* one created earlier first, and INIT_LOAD put them into the store in that
\* order.
C6_Witness ==
    /\ last.action.type = "INIT_LOAD"
    /\ Len(listed) = 2
    /\ listed[1].updatedAt = listed[2].updatedAt
    /\ listed[1].createdAt < listed[2].createdAt
    /\ store.order = IdsOf(listed)
    /\ last.action.payload.notes = listed

\* ------------------------------------------------------------------------
\* Properties of the adapter
\* ------------------------------------------------------------------------
\* C11: every note of notesById and every persisted note has
\* updatedAt >= createdAt.
C11_UpdatedNotBeforeCreated ==
    /\ \A k \in Keys(store) :
        store.notesById[k].updatedAt >= store.notesById[k].createdAt
    /\ \A i \in 1..Len(db) : db[i].note.updatedAt >= db[i].note.createdAt

\* this step is a call of the adapter function of the given name
AdapterStep(name) ==
    /\ last' # last \/ db' # db \/ reply' # reply
    /\ last'.action.type = name

\* the last call was a createNote that resolved
Created == last.action.type = "createNote" /\ reply.settled = "resolved"

\* this step is an updateNote or a deleteNote of id
Targets(id) ==
    /\ AdapterStep("updateNote") \/ AdapterStep("deleteNote")
    /\ trim(last'.action.payload.id) = id

\* the notes of list that have the given id
WithId(list, id) == {i \in 1..Len(list) : list[i].id = id}

\* C12: createNote resolves with a note n of equal stamps that getNote(n.id)
\* returns and listNotes() holds once; the next call, unless it is an update
\* or delete of n.id, leaves getNote(n.id) equal to n and n once in the list;
\* createNote({title: T}) on an empty storage leaves a list of one note
\* titled T.
C12_CreateRoundTrip ==
    [][/\ (AdapterStep("createNote") /\ reply'.settled = "resolved") =>
            LET n == reply'.value
                list == listNotes(db', now')
            IN /\ n.createdAt = n.updatedAt
               /\ getNote(db', n.id, now') = n
               /\ Cardinality(WithId(list, n.id)) = 1
               /\ \A i \in WithId(list, n.id) : list[i] = n
               /\ (db = <<>> /\ last'.action.payload.partial = [title |-> "T"]) =>
                    /\ Len(list) = 1
                    /\ list[1].title = "T"
       /\ (Created /\ ~Targets(reply.value.id)) =>
            LET n == reply.value
                list == listNotes(db', now')
            IN /\ getNote(db', n.id, now') = n
               /\ Cardinality(WithId(list, n.id)) = 1
               /\ \A i \in WithId(list, n.id) : list[i] = n
    ]_vars

\* C13: updateNote rejects with 'Note not found.' when no persisted note has
\* the id and with 'updateNote requires an updates object.' when updates is
\* not an object, and then the persisted notes are unchanged; when it
\* resolves, the note keeps its id and createdAt, takes title and content
\* from updates where given, is stamped with the clock, and every other
\* persisted note is unchanged.
C13_Update ==
    [][AdapterStep("updateNote") =>
        LET id == last'.action.payload.id
            updates == last'.action.payload.updates
        IN /\ ~IsObject(updates) =>
                /\ reply' = Rejected("updateNote requires an updates object.")
                /\ db' = db
           /\ ~MapHas(db, id) =>
                /\ reply'.settled = "rejected"
                /\ IsObject(updates) => reply' = Rejected("Note not found.")
                /\ db' = db
           /\ (IsObject(updates) /\ MapHas(db, id)) =>
                LET old == MapGet(db, id)
                    new == reply'.value
                IN /\ reply'.settled = "resolved"
                   /\ new.id = id /\ old.id = id
                   /\ new.createdAt = old.createdAt
                   /\ new.updatedAt = now
                   /\ new.title = IF Has(updates, "title") THEN updates.title ELSE old.title
                   /\ new.content = IF Has(updates, "content") THEN updates.content
                                    ELSE old.content
                   /\ DOMAIN new = {"id", "title", "content", "createdAt", "updatedAt"}
                   /\ Len(db') = Len(db)
                   /\ \A i \in 1..Len(db) :
                        IF db[i].key = id
                        THEN db'[i] = [key |-> id, note |-> new]
                        ELSE db'[i] = db[i]
    ]_vars

\* C13 witness: an update that carried an id and stamps of its own resolved
\* while another note was persisted as well.
C13_Witness ==
    /\ last.action.type = "updateNote"
    /\ reply.settled = "resolved"
    /\ Has(last.action.payload.updates, "createdAt")
    /\ Len(db) = 2
    /\ now > 1

\* C14: deleteNote always resolves; with true exactly when a note of that id
\* was persisted, which then is gone while every other persisted note is as
\* before; with false otherwise, the persisted notes unchanged; deleting
\* the same id again resolves with false.
C14_Delete ==
    [][AdapterStep("deleteNote") =>
        LET id == last'.action.payload.id
        IN /\ reply'.settled = "resolved"
           /\ reply'.value = MapHas(db, id)
           /\ ~MapHas(db', id)
           /\ db' = SelectSeq(db, LAMBDA e : e.key # id)
           /\ ~MapHas(db, id) => db' = db
           /\ deleteNote(db', id).reply = Resolved(FALSE)
           /\ deleteNote(db', id).map = db'
    ]_vars

\* C14 witness: a delete resolved with true and left another note persisted.
C14_Witness ==
    /\ last.action.type = "deleteNote"
    /\ reply = Resolved(TRUE)
    /\ Len(db) = 1

\* C15: a createNote whose provided or generated id is persisted already
\* calls generateNoteId() exactly once more and resolves with the note under
\* that regenerated id, whatever it is; a createNote whose id is free does
\* not regenerate.
C15_OneRegeneration ==
    [][(AdapterStep("createNote") /\ reply'.settled = "resolved") =>
        LET partial == last'.action.payload.partial
            generated == last'.action.payload.generated
            first == IF HasId(partial) THEN 0 ELSE 1
            firstId == IF HasId(partial) THEN trim(partial.id) ELSE generated[1]
        IN IF MapHas(db, firstId)
           THEN /\ Len(generated) = first + 1
                /\ reply'.value.id = generated[first + 1]
           ELSE /\ Len(generated) = first
                /\ reply'.value.id = firstId
    ]_vars

\* C15 witness: a createNote with a provided id regenerated once, and the
\* regenerated id was the provided one again.
C15_Witness ==
    /\ Created
    /\ HasId(last.action.payload.partial)
    /\ last.action.payload.generated = <<trim(last.action.payload.partial.id)>>

\* text contains part, letter case ignored
ContainsIgnoringCase(text, part) ==
    includes(toLowerCase(Chars(text)), toLowerCase(part))

\* the notes of list whose title or content contains part, in their order
Matching(list, part) ==
    SelectSeq(list, LAMBDA n :
        ContainsIgnoringCase(n.title, part) \/ ContainsIgnoringCase(n.content, part))

\* listNotes() resolves with every persisted note once, newest first
ListsAllNewestFirst ==
    AdapterStep("listNotes") =>
        /\ Len(listed') = Len(db)
        /\ \A i \in 1..Len(db) : Cardinality({j \in 1..Len(listed') : listed'[j] = db[i].note}) = 1
        /\ \A i, j \in 1..Len(listed') : i < j => listed'[i].updatedAt >= listed'[j].updatedAt

\* C16 as stated: listNotes() resolves with every persisted note once,
\* newest first; searchNotes(q) resolves with the notes of that list whose
\* title or content contains q, letter case ignored, in the order of the
\* list; searchNotes('') resolves with the list.
C16_SearchContainsQuery ==
    [][/\ ListsAllNewestFirst
       /\ AdapterStep("searchNotes") =>
            LET q == last'.action.payload.query
            IN /\ reply'.value = Matching(listNotes(db, now), q)
               /\ q = <<>> => reply'.value = listNotes(db, now)
    ]_vars

\* C16 amended: as stated, but the query is trimmed of surrounding blanks
\* before it is looked for, and a query of blanks only counts as empty.
C16_SearchContainsTrimmedQuery ==
    [][/\ ListsAllNewestFirst
       /\ AdapterStep("searchNotes") =>
            LET q == last'.action.payload.query
            IN /\ reply'.settled = "resolved"
               /\ reply'.value = Matching(listNotes(db, now), trim(q))
               /\ trim(q) = <<>> => reply'.value = listNotes(db, now)
    ]_vars

\* C16 witness: a query with a blank behind the letter found a note by its
\* title in the other letter case and left another note out.
C16_Witness ==
    /\ last.action.type = "searchNotes"
    /\ last.action.payload.query = <<"t", " ">>
    /\ Len(reply.value) = 1
    /\ reply.value[1].title = "T"
    /\ reply.value[1].content = ""
    /\ Len(db) = 2

\* ------------------------------------------------------------------------
\* Properties of the Route Synchronizer
\* ------------------------------------------------------------------------
NoteRef(id) == [route |-> "/note/:id", id |-> id]

NotePrefix == <<"#", "/", "n", "o", "t", "e", "/">>

\* C17: the canonical address of a non-empty selected id is #/note/ followed
\* by the escaped id and parses to NoteRef of the same id; the canonical
\* address of the null selection is #/; #/note/abc%20123 parses to
\* NoteRef("abc 123"), whose canonical address it is
C17_CanonicalRoundTrip ==
    LET id == store.selectedNoteId
    IN /\ id = NullId => buildHashForNote(id) = <<"#", "/">>
       /\ id # NullId =>
            /\ StartsWith(buildHashForNote(id), NotePrefix)
            /\ decodeURIComponent(Drop(buildHashForNote(id), Len(NotePrefix))) = id
            /\ parseHash(buildHashForNote(id)) = NoteRef(id)
       /\ hash = ExampleAddress => parseHash(hash) = NoteRef(ExampleId)
       /\ id = ExampleId => buildHashForNote(id) = ExampleAddress

C17_Witness ==
    /\ Settled
    /\ store.selectedNoteId = <<"a", "/">>
    /\ last.action = actions_selectNote(<<"a", "/">>)
    /\ hash = <<"#", "/", "n", "o", "t", "e", "/", "a", "%", "2", "F">>
    /\ route = NoteRef(<<"a", "/">>)

\* a step of the hashchange handler, and a step that runs the effects of a commit
HandlerStep == hashEvent /\ ~hashEvent'

CommitStep == ~EffectsFlushed /\ (routeDeps' # routeDeps \/ selDeps' # selDeps)

\* the hash -> store effect runs in the next commit
RouteEffectRuns == routeDeps # RouteKey(route)

\* C18: when a delivered address change parses to NoteRef(id) with id other
\* than the selected id, the hash -> store effect runs, and when it runs it
\* issues Select(id), so that selectedNoteId becomes id; for an address that
\* parses to Home it issues no Select and leaves the store as it is
C18_SelectOnAddressChange ==
    [][ /\ (HandlerStep /\ route'.route = "/note/:id"
                /\ route'.id # store.selectedNoteId) => RouteEffectRuns'
        /\ (CommitStep /\ RouteEffectRuns /\ route.route = "/note/:id"
                /\ route.id # store.selectedNoteId) =>
              /\ store'.selectedNoteId = route.id
              /\ last' = [action |-> actions_selectNote(route.id), changed |-> TRUE]
        /\ (CommitStep /\ RouteEffectRuns /\ route.route = "/") =>
              /\ store' = store
              /\ last' = last
      ]_vars

\* the address is the canonical one of the selection
Canonical == hash = buildHashForNote(store.selectedNoteId)

\* the address is set from outside the application
UserAddressChange == hash' # hash /\ routeDeps' = routeDeps /\ selDeps' = selDeps

C20_ComesToRest == []<>Settled

C20_Witness ==
    /\ Settled
    /\ store.selectedNoteId = Z
    /\ last.action = actions_selectNote(Z)
    /\ hash = Hash(Z)
    /\ route = NoteRef(Z)

\* ------------------------------------------------------------------------
\* The application: mount, initial load, and the handlers of the list, the
\* editor and the header, with every awaited promise resuming at any time
\* ------------------------------------------------------------------------
AppNote(id) ==
    [id |-> id, title |-> "t", content |-> "", createdAt |-> 1, updatedAt |-> 1]

\* what an earlier session left in the durable store: nothing, one note, or
\* an entry whose id is blank, which normalizeNote refuses
AppMaps ==
    {<<>>,
     <<[key |-> A, note |-> AppNote(A)]>>,
     <<[key |-> B, note |-> AppNote(<<" ">>)]>>}

AppAddresses == {<<>>, Hash(A)}

AppUpdates == {[title |-> "T"]}

InitApp ==
    /\ InitStore
    /\ hash \in AppAddresses
    /\ hashEvent = FALSE
    /\ historyLength = 1
    /\ route = parseHash(hash)
    /\ routeDeps = Unmounted
    /\ selDeps = Unmounted
    /\ db \in AppMaps
    /\ listed = <<>>
    /\ reply = NoReply
    /\ backend = [mode |-> "unprobed", throws |-> FALSE]
    /\ tasks = <<>>

AppSelect == \E i \in 1..Len(store.order) : handleSelectNote(store.order[i])

\* the editor saves the note of the address, listed or not
AppSave == \E updates \in AppUpdates : handleSaveNote(A, updates)

AppDelete == \E i \in 1..Len(store.order) : handleDeleteNote(store.order[i])

AppResume == \E i \in 1..Len(tasks) : Resume(i)

NextApp ==
    \/ AppLoad
    \/ AppCommitEffects
    \/ HashChangeHandler
    \/ onCreateNote
    \/ AppSelect
    \/ AppSave
    \/ AppDelete
    \/ AppResume

SpecApp == InitApp /\ [][NextApp]_vars

\* a settled promise resumes its handler, and scheduled effects run
SpecAppFair ==
    /\ InitApp
    /\ [][NextApp]_vars
    /\ WF_vars(AppLoad)
    /\ WF_vars(AppCommitEffects)
    /\ WF_vars(Resume(1))

\* ------------------------------------------------------------------------
\* A session opened on the address of a persisted note, left to itself
\* ------------------------------------------------------------------------
\* what is persisted: note A alone, or A and B in either order of insertion,
\* each with any timestamps
DeepLinkMaps ==
    {[i \in 1..Len(ids) |-> [key |-> ids[i], note |-> notes[ids[i]]]] :
        ids \in {<<A>>, <<A, B>>, <<B, A>>},
        notes \in {ns \in [StoreIds -> FullNotes(StoreIds, MaxClock)] :
                        \A id \in StoreIds : ns[id].id = id}}

InitDeepLink ==
    /\ InitStore
    /\ hash = Hash(A)
    /\ hashEvent = FALSE
    /\ historyLength = 1
    /\ route = parseHash(hash)
    /\ routeDeps = Unmounted
    /\ selDeps = Unmounted
    /\ db \in DeepLinkMaps
    /\ listed = <<>>
    /\ reply = NoReply
    /\ backend = [mode |-> "unprobed", throws |-> FALSE]
    /\ tasks = <<>>

NextDeepLink ==
    \/ AppLoad
    \/ AppCommitEffects
    \/ HashChangeHandler
    \/ AppResume

SpecDeepLink ==
    /\ InitDeepLink
    /\ [][NextDeepLink]_vars
    /\ WF_vars(AppLoad)
    /\ WF_vars(AppCommitEffects)
    /\ WF_vars(HashChangeHandler)
    /\ WF_vars(Resume(1))

\* ------------------------------------------------------------------------
\* The adapter over a durable backend that works, or that throws on every
\* write so that the first use falls back to memory
\* ------------------------------------------------------------------------
StorageMaps == {<<>>, <<[key |-> A, note |-> AppNote(A)]>>}

InitStorage ==
    /\ InitStore
    /\ InitRouterIdle
    /\ db \in StorageMaps
    /\ listed = <<>>
    /\ reply = NoReply
    /\ backend \in [mode : {"unprobed"}, throws : BOOLEAN]
    /\ tasks = <<>>

NextStorage ==
    \/ AdapterCreateAny
    \/ ListNotes
    \/ Tick

SpecStorage == InitStorage /\ [][NextStorage]_vars

\* ------------------------------------------------------------------------
\* The application over the local adapter, whose promises settle before the
\* next event of the user: a command is issued when no handler is suspended
\* ------------------------------------------------------------------------
NoneSuspended == tasks = <<>>

SeqCreate == NoneSuspended /\ onCreateNote

SeqSelect == NoneSuspended /\ AppSelect

SeqSave == NoneSuspended /\ AppSave

SeqDelete == NoneSuspended /\ AppDelete

NextSeq ==
    \/ AppLoad
    \/ AppCommitEffects
    \/ HashChangeHandler
    \/ SeqCreate
    \/ SeqSelect
    \/ SeqSave
    \/ SeqDelete
    \/ AppResume

SpecSeq == InitApp /\ [][NextSeq]_vars

\* ------------------------------------------------------------------------
\* The application in a browser where the storage of the origin can be
\* emptied from outside the page (another tab, the site data settings)
\* ------------------------------------------------------------------------
StorageCleared ==
    /\ ~threw
    /\ db # <<>>
    /\ db' = <<>>
    /\ UNCHANGED <<storeVars, routerVars, listed, reply, backend, tasks>>

NextStale ==
    \/ AppLoad
    \/ AppCommitEffects
    \/ HashChangeHandler
    \/ SeqCreate
    \/ SeqSelect
    \/ SeqSave
    \/ SeqDelete
    \/ AppResume
    \/ StorageCleared

SpecStale == InitApp /\ [][NextStale]_vars

\* ------------------------------------------------------------------------
\* The Entity Store under its field setters, over loaded collections
\* ------------------------------------------------------------------------
SetQuery ==
    /\ \E query \in {"", "q"} : Dispatch(actions_setSearchQuery(query))
    /\ UNCHANGED <<routerVars, adapterVars>>

SetLoading ==
    /\ \E loading \in BOOLEAN : Dispatch(actions_setLoading(loading))
    /\ UNCHANGED <<routerVars, adapterVars>>

NextFields ==
    \/ Load
    \/ Select
    \/ SetQuery
    \/ SetLoading
    \/ SetError

SpecFields == Init /\ [][NextFields]_vars

\* ------------------------------------------------------------------------
\* SpecKeys: store transitions and adapter operations from an empty store
\* and an empty storage, the updates of the store carrying any field of a note
\* ------------------------------------------------------------------------
\* partial fields handed to UPDATE_NOTE: a title, or an id
KeyedUpdates == {[title |-> "T"]} \cup [id : StoreIds]

KeysCreate ==
    /\ \E id \in StoreIds : Dispatch(actions_createNote([id |-> id]))
    /\ UNCHANGED <<routerVars, adapterVars>>

KeysUpdate ==
    /\ \E id \in StoreIds, updates \in KeyedUpdates : Dispatch(actions_updateNote(id, updates))
    /\ UNCHANGED <<routerVars, adapterVars>>

\* createNote without an id and with a padded id
KeysAdapterCreate == \E partial \in {EmptyObject, [id |-> PadN1]} : AdapterCreate(partial)

KeysAdapterUpdate == \E id \in AdapterIds : AdapterUpdate(id, [title |-> "T"])

NextKeys ==
    \/ Load
    \/ KeysCreate
    \/ KeysUpdate
    \/ Delete
    \/ KeysAdapterCreate
    \/ KeysAdapterUpdate
    \/ AdapterDeleteAny

SpecKeys == Init /\ [][NextKeys]_vars

\* ------------------------------------------------------------------------
\* Properties of parseHash and navigate
\* ------------------------------------------------------------------------
\* C22: parsing never fails: once the handler has processed an address, the
\* route is the parse of that address, and it is Home or NoteRef(id)
C22_ParseNeverFails ==
    ~hashEvent =>
        /\ route = parseHash(hash)
        /\ route.route \in {"/", "/note/:id"}

\* the address without its # and with its leading slash
PathOf(h) ==
    LET bare == IF StartsWith(h, <<"#">>) THEN Tail(h) ELSE h
    IN IF StartsWith(bare, <<"/">>) THEN bare ELSE <<"/">> \o bare

\* the address is / or /note/ followed by the escaped form of an id
ExactForm(h) ==
    LET path == PathOf(h)
        prefix == Tail(NotePath)
    IN \/ path = <<"/">>
       \/ /\ StartsWith(path, prefix)
          /\ Len(path) > Len(prefix)
          /\ LET rest == Drop(path, Len(prefix))
             IN /\ decodeURIComponent(rest) # URIError
                /\ encodeURIComponent(decodeURIComponent(rest)) = rest

\* C23: an address that is neither / nor exactly /note/<escaped id>
\* parses to Home
C23_OtherFormsAreHome ==
    (~hashEvent /\ ~ExactForm(hash)) => route = HomeRoute

\* C24: a store-driven address update replaces the current address in place:
\* when the store -> hash effect writes the address, the navigation
\* history gets no new entry
C24_WriteReplacesEntry ==
    [][ (CommitStep /\ hash' # hash) => historyLength' = historyLength ]_vars

\* ------------------------------------------------------------------------
\* Properties of the application handlers
\* ------------------------------------------------------------------------
\* the handler suspended at position i resumes in this step
Suspended(ts) == [j \in 1..Len(ts) |-> <<ts[j].kind, ts[j].id, ts[j].settled>>]

Resumes(i) == i \in 1..Len(tasks) /\ Suspended(tasks') = RemoveAt(Suspended(tasks), i)

\* a handler of the given kind reaches its await in this step
Issues(kind) ==
    /\ Len(tasks') = Len(tasks) + 1
    /\ tasks'[Len(tasks')].kind = kind

\* C21: navigate called with the path form /note/<id> makes the current
\* address /note/<id>, so after a successful save of note id the address is
\* that of the note
C21_NavigateReachesNote ==
    [][ \A i \in 1..Len(tasks) :
            (Resumes(i) /\ tasks[i].kind = "save" /\ tasks[i].settled = "resolved")
                => PathOf(hash') = NotePathOf(tasks[i].id) ]_vars

\* C25: the store transition of a create is applied when the intent is
\* issued, before its durable write resolves
C25_TransitionAtIssue ==
    [][ (Issues("create") /\ tasks'[Len(tasks')].settled = "resolved")
            => Has(store'.notesById, tasks'[Len(tasks')].note.id) ]_vars

\* C26: when every operation has completed, error is null if the operation
\* issued last succeeded and is the message of its failure otherwise
C26_ErrorOfLastOperation ==
    (tasks = <<>> /\ reply # NoReply)
        => store.error = IF reply.settled = "resolved"
                         THEN Null
                         ELSE toAppError(reply.message)

\* a load or a create is suspended at its await
Outstanding == \E i \in 1..Len(tasks) : tasks[i].kind \in {"load", "create"}

\* C27: while loading is true a load or a create is outstanding; the
\* command that set it sets it back to false when it resumes, on success and
\* on failure, and it does resume
C27_LoadingWhileOutstanding ==
    /\ [](store.loading => Outstanding)
    /\ [][ \A i \in 1..Len(tasks) :
               (Resumes(i) /\ tasks[i].kind \in {"load", "create"}) => ~store'.loading ]_vars
    /\ (store.loading ~> ~store.loading)

\* the initial load has failed and loading is false again
C27_Witness ==
    /\ ~store.loading
    /\ tasks = <<>>
    /\ reply = Rejected("Note must have a valid id.")
    /\ last.action = actions_setLoading(FALSE)

\* C30: a save of an id that is neither in notesById nor in the durable store
\* is rejected by the adapter with "Note not found.", leaves notesById and
\* order as they are, and sets error to a message when it resumes
C30_SaveOfMissingNote ==
    [][ /\ (/\ Issues("save")
            /\ ~Has(store.notesById, tasks'[Len(tasks')].id)
            /\ ~MapHas(loadNotesMap, tasks'[Len(tasks')].id))
           => /\ reply' = Rejected("Note not found.")
              /\ tasks'[Len(tasks')].settled = "rejected"
              /\ store'.notesById = store.notesById
              /\ store'.order = store.order
        /\ \A i \in 1..Len(tasks) :
               (Resumes(i) /\ tasks[i].kind = "save" /\ tasks[i].settled = "rejected")
                   => /\ store'.error # Null
                      /\ store'.notesById = store.notesById
                      /\ store'.order = store.order ]_vars

\* the save of a missing note has been rejected and its message is shown
C30_Witness ==
    /\ tasks = <<>>
    /\ reply = Rejected("Note not found.")
    /\ store.error = toAppError("Note not found.")
    /\ last.action = actions_setError(toAppError("Note not found."))

\* the initial load has been issued and has resumed
LoadCompleted == tasks = <<>> /\ last.action.type # "@@INIT"

\* C29: in a session opened at the address of persisted note A, once the
\* initial load has completed the selected note is A, and the address, which
\* the mount rewrites once, is that of A whenever no effect or event is
\* pending, which it comes to be for good
C29_DeepLinkSelects ==
    /\ [](LoadCompleted => store.selectedNoteId = A)
    /\ []((LoadCompleted /\ Settled) => hash = Hash(A))
    /\ <>[](LoadCompleted /\ Settled /\ hash = Hash(A))

\* the deep-linked note is selected although another note heads the list
C29_Witness ==
    /\ LoadCompleted
    /\ Settled
    /\ store.selectedNoteId = A
    /\ hash = Hash(A)
    /\ Len(store.order) > 1
    /\ store.order[1] # A

\* the keys of a notes map

KeysOf(map) == {map[i].key : i \in 1..Len(map)}

\* C28: with a durable backend that throws on every write, a create resolves
\* with a note that is stored for the session (it is refused only for an
\* invalid id, never for the storage), what is stored stays stored, and a
\* list resolves with every stored note
C28_FallbackKeepsNotes ==
    /\ []((backend.mode = "memory" /\ last.action.type = "createNote")
            => IF reply.settled = "resolved"
               THEN /\ MapHas(db, reply.value.id)
                    /\ MapGet(db, reply.value.id) = reply.value
               ELSE reply = Rejected("Note must have a valid id."))
    /\ []((backend.mode = "memory" /\ last = AdapterCall("listNotes"))
            => /\ reply = Resolved(listed)
               /\ {listed[i].id : i \in 1..Len(listed)} = KeysOf(db))
    /\ [][ backend.mode = "memory" => KeysOf(db) \subseteq KeysOf(db') ]_vars

\* a list in the fallback session returns a note created in it
C28_Witness ==
    /\ backend = [mode |-> "memory", throws |-> TRUE]
    /\ last = AdapterCall("listNotes")
    /\ \E i \in 1..Len(listed) : listed[i].id \in generateNoteId

\* C31: when the adapter rejects an update of a note that is in notesById, the
\* optimistic change is in notesById and order from the issue on, the handler
\* that resumes from the rejection of an update or a delete leaves notesById
\* and order as they are, and error becomes a message
C31_NoRollback ==
    [][ /\ (/\ Issues("save")
            /\ tasks'[Len(tasks')].settled = "rejected"
            /\ Has(store.notesById, tasks'[Len(tasks')].id))
           => /\ store'.notesById[tasks'[Len(tasks')].id].title = "T"
              /\ store'.order[1] = tasks'[Len(tasks')].id
        /\ \A i \in 1..Len(tasks) :
               (/\ Resumes(i)
                /\ tasks[i].kind \in {"save", "delete"}
                /\ tasks[i].settled = "rejected")
                   => /\ store'.notesById = store.notesById
                      /\ store'.order = store.order
                      /\ store'.error # Null ]_vars

\* the update of a note that is no longer stored was rejected: its change
\* stays in notesById and a message is shown
C31_Witness ==
    /\ tasks = <<>>
    /\ reply = Rejected("Note not found.")
    /\ Has(store.notesById, A)
    /\ store.notesById[A].title = "T"
    /\ store.order[1] = A
    /\ ~MapHas(db, A)
    /\ store.error # Null

\* every stored entry is one that listNotes accepts
Readable(map) == \A i \in 1..Len(map) : ~normalizeThrows(map[i].note)

\* notesById and the stored map hold the same ids with the same texts
SameNotes(notesById, map) ==
    /\ DOMAIN notesById = KeysOf(map)
    /\ \A k \in DOMAIN notesById :
           /\ notesById[k].title = MapGet(map, k).title
           /\ notesById[k].content = MapGet(map, k).content

\* C32: once the load has completed, with no handler suspended and nothing
\* unreadable stored (the one operation that fails otherwise, a save of a
\* missing note, changes neither side), notesById and the durable store hold
\* the same ids with the same title and content
C32_StoreMatchesDurable ==
    (LoadCompleted /\ Readable(db)) => SameNotes(store.notesById, db)

\* a loaded note was saved and a note was created, and both sides hold both
C32_Witness ==
    /\ LoadCompleted
    /\ DOMAIN store.notesById = {A, N1}
    /\ store.notesById[A].title = "T"
    /\ SameNotes(store.notesById, db)

\* C33: the message of an adapter rejection reaches the error field: after
\* the handler of a rejected operation has resumed, error is the message the
\* adapter rejected with
C33_MessageKept ==
    (NoneSuspended /\ reply.settled = "rejected" /\ last.action.type = "SET_ERROR")
        => store.error = reply.message

\* C34: a createNote that resolves leaves every note that was persisted
\* persisted with the same fields, and the persisted notes are one more
C34_CreateAddsOne ==
    [][ (AdapterStep("createNote") /\ reply'.settled = "resolved")
            => /\ \A i \in 1..Len(db) :
                      /\ MapHas(db', db[i].key)
                      /\ MapGet(db', db[i].key) = db[i].note
               /\ Len(db') = Len(db) + 1 ]_vars

\* this step applies CREATE_NOTE to the note with an id that the dispatch
\* before it created
CreatesAgain ==
    /\ IsStep("CREATE_NOTE")
    /\ last'.action = last.action
    /\ Has(last.action.payload, "note")
    /\ Has(last.action.payload.note, "id")
    /\ last.action.payload.note.id # NullId

\* C35 as stated: the second Create of the same note keeps the ids, the
\* titles and the contents of notesById, has the id at the front of order and
\* stamps the note's updatedAt with the current time
C35_CreateTwiceRestamps ==
    [][ CreatesAgain =>
            LET id == last.action.payload.note.id
            IN /\ Keys(store') = Keys(store)
               /\ \A k \in Keys(store) :
                      /\ store'.notesById[k].title = store.notesById[k].title
                      /\ store'.notesById[k].content = store.notesById[k].content
               /\ store'.order[1] = id
               /\ store'.notesById[id].updatedAt = now ]_vars

\* C35 amended: the same, with updatedAt stamped only when the note gives
\* none, and otherwise left as the note gives it
C35_CreateTwiceKeepsGivenStamp ==
    [][ CreatesAgain =>
            LET note == last.action.payload.note
            IN /\ Keys(store') = Keys(store)
               /\ \A k \in Keys(store) :
                      /\ store'.notesById[k].title = store.notesById[k].title
                      /\ store'.notesById[k].content = store.notesById[k].content
               /\ store'.order[1] = note.id
               /\ store'.notesById[note.id].updatedAt = FieldOr(note, "updatedAt", now) ]_vars

\* a Create of a note with an older updatedAt found the state it produces
\* already there: the note is at the front with the stamp it was given
C35_Witness ==
    /\ last.action.type = "CREATE_NOTE"
    /\ ~last.changed
    /\ Has(last.action.payload, "note")
    /\ Has(last.action.payload.note, "updatedAt")
    /\ last.action.payload.note.updatedAt < now
    /\ store.order # <<>>
    /\ store.order[1] = last.action.payload.note.id
    /\ store.notesById[store.order[1]].updatedAt = last.action.payload.note.updatedAt

\* the notes all have the same time in the comparison of the sort
EqualTimes(notes) == \A i, j \in 1..Len(notes) : noteTime(notes[i]) = noteTime(notes[j])

\* C36: INIT_LOAD of notes whose times are all equal makes order the ids of
\* the notes in their input order, and the same load again leaves order as
\* it is
C36_LoadKeepsInputOrder ==
    [][ (IsStep("INIT_LOAD") /\ ~IsUndefined(last'.action.payload)
            /\ EqualTimes(last'.action.payload.notes))
            => /\ store'.order = IdsOf(last'.action.payload.notes)
               /\ (last.action = last'.action) => store'.order = store.order ]_vars

\* two notes of different ids and equal times were loaded
C36_Witness ==
    /\ last.action.type = "INIT_LOAD"
    /\ ~IsUndefined(last.action.payload)
    /\ Len(last.action.payload.notes) > 1
    /\ EqualTimes(last.action.payload.notes)
    /\ last.action.payload.notes[1].id # last.action.payload.notes[2].id
    /\ store.order = IdsOf(last.action.payload.notes)

\* C37: SET_SEARCH_QUERY, SET_LOADING and SET_ERROR replace their own field
\* by the given value and SELECT_NOTE replaces selectedNoteId by the given id
\* or null; each leaves every other field of the state as it is
C37_FieldSetters ==
    [][ /\ IsStep("SET_SEARCH_QUERY")
            => store' = [store EXCEPT !.query = last'.action.payload.query]
        /\ IsStep("SET_LOADING")
            => store' = [store EXCEPT !.loading = last'.action.payload.loading]
        /\ IsStep("SET_ERROR")
            => store' = [store EXCEPT !.error = last'.action.payload.error]
        /\ IsStep("SELECT_NOTE")
            => store' = [store EXCEPT !.selectedNoteId = last'.action.payload.id] ]_vars

\* an id that no note has was selected over a loaded collection, with the
\* other fields set
C37_Witness ==
    /\ last.action = actions_selectNote(B)
    /\ store.selectedNoteId = B
    /\ ~Has(store.notesById, B)
    /\ store.order # <<>>
    /\ store.loading
    /\ store.error = "E"
    /\ store.query = "q"

\* C38: every note is stored under its own id: the note under key k of
\* notesById has id k, and the note under key k of the persisted map has id k
C38_StoredUnderOwnId ==
    /\ \A k \in DOMAIN store.notesById : store.notesById[k].id = k
    /\ \A i \in 1..Len(db) : db[i].note.id = db[i].key

====
